---- MODULE Spec2Model ----
(***************************************************************************)
(* Hex lattice subsystem of bee: the axial coordinate math, the hash noise *)
(* field, the terrain assignment policy, the lattice store and picking     *)
(* (src/src/world/hex_world.c).                                            *)
(*                                                                         *)
(* float is IEEE binary32 evaluated operation by operation with            *)
(* round-to-nearest-even; uint32_t wraps modulo 2^32.  The values met here *)
(* stay inside the normal range, so infinities, NaNs and subnormals are    *)
(* not represented.                                                        *)
(***************************************************************************)
EXTENDS Integers, Sequences, FiniteSets, TLC

VARIABLES world, cfg, over, ret, allocs, built, app

vars == <<world, cfg, over, ret, allocs, built, app>>

(* binary32 values are pairs <<m, e>> standing for m * 2^e, with              *)
(* 2^23 <= |m| < 2^24, or <<0, 0>> for zero.                                   *)
Pow2(n) == 2 ^ n

Abs(n) == IF n < 0 THEN -n ELSE n

Sgn(n) == IF n < 0 THEN -1 ELSE 1

RECURSIVE BitLen(_)
BitLen(n) == IF n = 0 THEN 0 ELSE 1 + BitLen(n \div 2)

FZero == <<0, 0>>

\* q + remainder against half, round to nearest, ties to even; q in [2^23, 2^24)
RoundQ(sign, q, rem, half, e) ==
    LET up == rem > half \/ (rem = half /\ q % 2 = 1)
        m == IF up THEN q + 1 ELSE q
    IN IF m = Pow2(24) THEN <<sign * Pow2(23), e + 1>> ELSE <<sign * m, e>>

\* sign * M * 2^E with M < 2^30, rounded to 24 significant bits
RoundF(sign, M, E) ==
    IF M = 0 THEN FZero
    ELSE LET nb == BitLen(M)
         IN IF nb <= 24
            THEN <<sign * M * Pow2(24 - nb), E - (24 - nb)>>
            ELSE LET sh == nb - 24
                 IN RoundQ(sign, M \div Pow2(sh), M % Pow2(sh), Pow2(sh - 1), E + sh)

Jam(n, sticky) == IF sticky /\ n % 2 = 0 THEN n + 1 ELSE n

FromInt(n) == RoundF(Sgn(n), Abs(n), 0)

FNeg(a) == <<-a[1], a[2]>>

fabsf(a) == <<Abs(a[1]), a[2]>>

FMul(a, b) ==
    IF a[1] = 0 \/ b[1] = 0 THEN FZero
    ELSE LET ma == Abs(a[1])
             mb == Abs(b[1])
             ah == ma \div 4096
             al == ma % 4096
             bh == mb \div 4096
             bl == mb % 4096
             mid == ah * bl + al * bh
             L == al * bl + (mid % 4096) * 4096
             low == L % Pow2(24)
             H == ah * bh + mid \div 4096 + L \div Pow2(24)
             sign == Sgn(a[1]) * Sgn(b[1])
         IN IF H >= Pow2(23)
            THEN RoundQ(sign, H, low, Pow2(23), a[2] + b[2] + 24)
            ELSE RoundQ(sign, H * 2 + low \div Pow2(23), low % Pow2(23), Pow2(22),
                        a[2] + b[2] + 23)

FAdd(a, b) ==
    IF a[1] = 0 THEN b
    ELSE IF b[1] = 0 THEN a
    ELSE LET x == IF a[2] >= b[2] THEN a ELSE b
             y == IF a[2] >= b[2] THEN b ELSE a
             d == x[2] - y[2]
             Y8 == Abs(y[1]) * 8
             Ys == IF d >= 27 THEN 1 ELSE Jam(Y8 \div Pow2(d), Y8 % Pow2(d) # 0)
             S == x[1] * 8 + Sgn(y[1]) * Ys
         IN RoundF(Sgn(S), Abs(S), x[2] - 3)

FSub(a, b) == FAdd(a, FNeg(b))

RECURSIVE DivBits(_, _, _, _)
DivBits(q, r, d, n) ==
    IF n = 0 THEN <<q, r>>
    ELSE IF 2 * r >= d THEN DivBits(2 * q + 1, 2 * r - d, d, n - 1)
         ELSE DivBits(2 * q, 2 * r, d, n - 1)

FDiv(a, b) ==
    IF a[1] = 0 THEN FZero
    ELSE LET ma == Abs(a[1])
             mb == Abs(b[1])
             qr == DivBits(ma \div mb, ma % mb, mb, 26)
         IN RoundF(Sgn(a[1]) * Sgn(b[1]), Jam(qr[1], qr[2] # 0), a[2] - b[2] - 26)

RECURSIVE SqrtBits(_, _, _)
SqrtBits(root, rem, n) ==
    IF n = 0 THEN <<root, rem>>
    ELSE IF 4 * rem >= 4 * root + 1
         THEN SqrtBits(2 * root + 1, 4 * rem - (4 * root + 1), n - 1)
         ELSE SqrtBits(2 * root, 4 * rem, n - 1)

RECURSIVE Isqrt(_)
Isqrt(n) ==
    IF n < 2 THEN n
    ELSE LET r == 2 * Isqrt(n \div 4)
         IN IF (r + 1) * (r + 1) <= n THEN r + 1 ELSE r

sqrtf(a) ==
    IF a[1] = 0 THEN FZero
    ELSE LET odd == a[2] % 2 = 1
             m == IF odd THEN 2 * a[1] ELSE a[1]
             e == IF odd THEN a[2] - 1 ELSE a[2]
             r0 == Isqrt(m)
             rr == SqrtBits(r0, m - r0 * r0, 14)
         IN RoundF(1, Jam(rr[1], rr[2] # 0), e \div 2 - 14)

FLt(a, b) ==
    IF a[1] = 0 THEN b[1] > 0
    ELSE IF b[1] = 0 THEN a[1] < 0
    ELSE IF (a[1] < 0) # (b[1] < 0) THEN a[1] < 0
    ELSE IF a[1] > 0 THEN a[2] < b[2] \/ (a[2] = b[2] /\ a[1] < b[1])
    ELSE a[2] > b[2] \/ (a[2] = b[2] /\ a[1] < b[1])

FLe(a, b) == ~FLt(b, a)

FGt(a, b) == FLt(b, a)

FGe(a, b) == ~FLt(a, b)

fmaxf(a, b) == IF FLt(a, b) THEN b ELSE a

\* nearest integer, ties to even (the default rounding mode)
lrintf(a) ==
    IF a[1] = 0 THEN 0
    ELSE IF a[2] >= 0 THEN a[1] * Pow2(a[2])
    ELSE IF -a[2] >= 26 THEN 0
    ELSE LET sh == -a[2]
             ma == Abs(a[1])
             q == ma \div Pow2(sh)
             rem == ma % Pow2(sh)
             half == Pow2(sh - 1)
             up == rem > half \/ (rem = half /\ q % 2 = 1)
         IN Sgn(a[1]) * (IF up THEN q + 1 ELSE q)

(* uint32_t values are pairs <<hi, lo>> of 16-bit halves.                      *)
U32(n) == <<(n \div 65536) % 65536, n % 65536>>

\* the full 32-bit product of two 16-bit values
Mul16(x, y) ==
    LET p0 == (x % 256) * y
        p1 == (x \div 256) * y
        t == p0 + (p1 % 256) * 256
    IN <<t \div 65536 + p1 \div 256, t % 65536>>

\* a * b mod 2^32
Mul32(a, b) ==
    LET ll == Mul16(a[2], b[2])
    IN <<(ll[1] + Mul16(a[1], b[2])[2] + Mul16(a[2], b[1])[2]) % 65536, ll[2]>>

RECURSIVE Xor16(_, _, _)
Xor16(x, y, n) ==
    IF n = 0 THEN 0
    ELSE ((x + y) % 2) + 2 * Xor16(x \div 2, y \div 2, n - 1)

Xor32(a, b) == <<Xor16(a[1], b[1], 16), Xor16(a[2], b[2], 16)>>

\* a >> k for 0 < k <= 16
Shr32(a, k) ==
    LET v == a[1] * Pow2(16 - k) + a[2] \div Pow2(k)
    IN <<v \div 65536, v % 65536>>

\* (float)0x1000000u
F16777216 == FromInt(16777216)

\* pseudo_noise01 hashing the magnitudes of q and r
pseudo_noise01_abs(q, r) ==
    LET h0 == Xor32(Mul32(U32(Abs(q)), U32(73856093)), Mul32(U32(Abs(r)), U32(19349663)))
        h1 == Xor32(h0, Shr32(h0, 13))
        h2 == Mul32(h1, U32(1540483477))
        h3 == Xor32(h2, Shr32(h2, 15))
    IN FDiv(FromInt((h3[1] % 256) * 65536 + h3[2]), F16777216)

\* pseudo_noise01 hashing q + 1 in place of q
pseudo_noise01_shift(q, r) ==
    LET h0 == Xor32(Mul32(U32(q + 1), U32(73856093)), Mul32(U32(r), U32(19349663)))
        h1 == Xor32(h0, Shr32(h0, 13))
        h2 == Mul32(h1, U32(1540483477))
        h3 == Xor32(h2, Shr32(h2, 15))
    IN FDiv(FromInt((h3[1] % 256) * 65536 + h3[2]), F16777216)

pseudo_noise01(q, r) ==
    LET h0 == Xor32(Mul32(U32(q), U32(73856093)), Mul32(U32(r), U32(19349663)))
        h1 == Xor32(h0, Shr32(h0, 13))
        h2 == Mul32(h1, U32(1540483477))
        h3 == Xor32(h2, Shr32(h2, 15))
    IN FDiv(FromInt((h3[1] % 256) * 65536 + h3[2]), F16777216)

\* a decimal literal n/d written in the source with an f suffix
Dec(n, d) == FDiv(FromInt(n), FromInt(d))

SQRT3 == <<14529495, -23>>

\* the float literals of hex_world.c
F0 == Dec(0, 1)

F0_04 == Dec(4, 100)

F0_08 == Dec(8, 100)

F0_18 == Dec(18, 100)

F0_3 == Dec(3, 10)

F0_35 == Dec(35, 100)

F0_4 == Dec(4, 10)

F0_5 == Dec(5, 10)

F0_55 == Dec(55, 100)

F0_68 == Dec(68, 100)

F0_8 == Dec(8, 10)

F0_95 == Dec(95, 100)

F1 == Dec(1, 1)

F1_2 == Dec(12, 10)

F1_5 == Dec(15, 10)

F2 == Dec(2, 1)

F3 == Dec(3, 1)

F4_5 == Dec(45, 10)

F6 == Dec(6, 1)

F8 == Dec(8, 1)

F18 == Dec(18, 1)

F26 == Dec(26, 1)

F30 == Dec(30, 1)

F35 == Dec(35, 1)

F60 == Dec(60, 1)

F240 == Dec(240, 1)

\* the constant subexpressions SQRT3 / 3.0f, 1.0f / 3.0f and 2.0f / 3.0f
SQRT3_3 == FDiv(SQRT3, F3)

F1_3 == FDiv(F1, F3)

F2_3 == FDiv(F2, F3)


HEX_TERRAIN_OPEN == 0

HEX_TERRAIN_FOREST == 1

HEX_TERRAIN_MOUNTAIN == 2

HEX_TERRAIN_WATER == 3

HEX_TERRAIN_HIVE == 4

HEX_TERRAIN_FLOWERS == 5

HEX_TERRAIN_ENTRANCE == 6

HEX_TILE_VISIBLE == 1

\* (size_t)-1; no index the model computes is negative
SIZE_MAX == -1

\* the null cell array; calloc is only called with count > 0, so an
\* allocated array is never the empty sequence
NULL == <<>>

NullParams == [null |-> TRUE]

NullTile == [null |-> TRUE]

(***************************************************************************)
(* Configurations.  Each scene fixes the geometry and the colony           *)
(* placement and anchors a window of MaxSpan x MaxSpan cells on cells of   *)
(* interest.                                                               *)
(***************************************************************************)
MaxSpan == 3

MkParams(enabled, cell_size, origin_x, origin_y, q_min, q_span, r_min, r_span, rect_x, rect_y, rect_w, rect_h, side, t, width) ==
    [null |-> FALSE,
     hex |-> [enabled |-> enabled, cell_size |-> cell_size,
              origin_x |-> origin_x, origin_y |-> origin_y,
              q_min |-> q_min, q_max |-> q_min + q_span - 1,
              r_min |-> r_min, r_max |-> r_min + r_span - 1],
     hive |-> [rect_x |-> rect_x, rect_y |-> rect_y,
               rect_w |-> rect_w, rect_h |-> rect_h,
               entrance_side |-> side, entrance_t |-> t,
               entrance_width |-> width]]

\* cell_size 48, origin (0,0), no colony placement, window round the origin
SceneOrigin(qs, rs) ==
    MkParams(TRUE, Dec(48, 1), Dec(0, 1), Dec(0, 1), -1, qs, -1, rs,
             Dec(0, 1), Dec(0, 1), Dec(0, 1), Dec(0, 1), 1, Dec(5, 10), Dec(20, 1))

\* the same lattice, window far from the origin
SceneFar(qs, rs) ==
    MkParams(TRUE, Dec(48, 1), Dec(0, 1), Dec(0, 1), 5, qs, -2, rs,
             Dec(0, 1), Dec(0, 1), Dec(0, 1), Dec(0, 1), 1, Dec(5, 10), Dec(20, 1))

\* the values of params_init_defaults, window on the entrance
SceneDefaults(qs, rs) ==
    MkParams(TRUE, Dec(48, 1), Dec(640, 1), Dec(360, 1), -4, qs, 0, rs,
             Dec(200, 1), Dec(200, 1), Dec(400, 1), Dec(260, 1), 1, Dec(5, 10),
             Dec(120, 1))

\* a colony whose bottom entrance falls on a cell in the Forest band
SceneBottom(qs, rs) ==
    MkParams(TRUE, Dec(48, 1), Dec(0, 1), Dec(0, 1), -2, qs, -1, rs,
             Dec(-216, 1), Dec(-110, 1), Dec(100, 1), Dec(100, 1), 1, Dec(5, 10),
             Dec(20, 1))

\* a colony whose right entrance falls on a cell of a flower patch
SceneRight(qs, rs) ==
    MkParams(TRUE, Dec(48, 1), Dec(0, 1), Dec(0, 1), 5, qs, 0, rs,
             Dec(430, 1), Dec(22, 1), Dec(100, 1), Dec(100, 1), 3, Dec(5, 10),
             Dec(20, 1))

\* another cell size and origin
SceneSmall(qs, rs) ==
    MkParams(TRUE, Dec(125, 10), Dec(333, 1), Dec(-77, 1), -9, qs, 7, rs,
             Dec(0, 1), Dec(0, 1), Dec(0, 1), Dec(0, 1), 0, Dec(5, 10), Dec(20, 1))

\* cell_size 48, origin (0,0), the window q in [-2,2], r in [-2,2] and no
\* colony placement
Scenario1 ==
    MkParams(TRUE, Dec(48, 1), Dec(0, 1), Dec(0, 1), -2, 5, -2, 5,
             Dec(0, 1), Dec(0, 1), Dec(0, 1), Dec(0, 1), 1, Dec(5, 10), Dec(20, 1))

\* the colony rectangle (0,0,100,100) with a bottom entrance at t = 0.5 of
\* width 20 on the same lattice, window on the rectangle
Scenario2(qs, rs) ==
    MkParams(TRUE, Dec(48, 1), Dec(0, 1), Dec(0, 1), -1, qs, 0, rs,
             Dec(0, 1), Dec(0, 1), Dec(100, 1), Dec(100, 1), 1, Dec(5, 10),
             Dec(20, 1))

\* a colony with a left entrance of width 0, window on the entrance
SceneNoWidth(qs, rs) ==
    MkParams(TRUE, Dec(48, 1), Dec(0, 1), Dec(0, 1), 0, qs, 0, rs,
             Dec(100, 1), Dec(-40, 1), Dec(100, 1), Dec(100, 1), 2, Dec(5, 10),
             Dec(0, 1))

Scenes ==
    {SceneOrigin(MaxSpan, MaxSpan), SceneFar(MaxSpan, MaxSpan),
     SceneDefaults(MaxSpan, MaxSpan), SceneBottom(MaxSpan, MaxSpan - 1),
     SceneRight(MaxSpan, MaxSpan - 1), SceneSmall(MaxSpan - 1, MaxSpan),
     Scenario1, Scenario2(MaxSpan, MaxSpan), SceneNoWidth(MaxSpan, MaxSpan - 2)}

\* spans that are not positive
BadSpans == {SceneOrigin(0, MaxSpan), SceneOrigin(MaxSpan, -1)}

Disabled == [SceneOrigin(MaxSpan, MaxSpan) EXCEPT !.hex.enabled = FALSE]

ParamsSet == Scenes \cup BadSpans \cup {Disabled, NullParams}

ToInt16(n) == ((n + 32768) % 65536) - 32768

ToUint16(n) == n % 65536

clampf(v, lo, hi) == IF FLt(v, lo) THEN lo ELSE IF FGt(v, hi) THEN hi ELSE v

\* one element of calloc'ed memory
ZeroTile ==
    [q |-> 0, r |-> 0, terrain |-> 0, nectar_stock |-> FZero,
     nectar_capacity |-> FZero, nectar_recharge_rate |-> FZero,
     flow_capacity |-> FZero, center_x |-> FZero, center_y |-> FZero,
     flags |-> 0]

\* memset(world, 0, sizeof(*world))
ZeroWorld ==
    [cell_size |-> FZero, origin_x |-> FZero, origin_y |-> FZero,
     q_min |-> 0, q_max |-> 0, r_min |-> 0, r_max |-> 0,
     width |-> 0, height |-> 0, count |-> 0, tiles |-> NULL]

hex_world_init(w) == ZeroWorld

\* free(world->tiles) releasing nothing
Freed_none(w) == 0

\* the number of arrays free(world->tiles) releases
Freed(w) == IF w.tiles # NULL THEN 1 ELSE 0

\* hex_world_destroy leaving the freed pointer in the world
hex_world_destroy_dangling(w) == [ZeroWorld EXCEPT !.tiles = w.tiles]

hex_world_destroy(w) == ZeroWorld

\* HiveEnabled accepting a rectangle of no extent
HiveEnabled_ge(params) ==
    FGe(params.hive.rect_w, FZero) /\ FGe(params.hive.rect_h, FZero)

\* hive_enabled: colony placement is active
HiveEnabled(params) ==
    FGt(params.hive.rect_w, FZero) /\ FGt(params.hive.rect_h, FZero)

\* InsideRect with center_x tested against the vertical extent
InsideRect_xy(params, tile) ==
    /\ FGe(tile.center_x, params.hive.rect_y)
    /\ FLe(tile.center_x, FAdd(params.hive.rect_y, params.hive.rect_h))
    /\ FGe(tile.center_y, params.hive.rect_y)
    /\ FLe(tile.center_y, FAdd(params.hive.rect_y, params.hive.rect_h))

\* InsideRect reading (rect_x, rect_y) as the centre of the rectangle
InsideRect_centre(params, tile) ==
    /\ FGe(tile.center_x, FSub(params.hive.rect_x, FMul(params.hive.rect_w, F0_5)))
    /\ FLe(tile.center_x, FAdd(params.hive.rect_x, FMul(params.hive.rect_w, F0_5)))
    /\ FGe(tile.center_y, FSub(params.hive.rect_y, FMul(params.hive.rect_h, F0_5)))
    /\ FLe(tile.center_y, FAdd(params.hive.rect_y, FMul(params.hive.rect_h, F0_5)))

\* the cell centre lies in the placement rectangle, boundary included
InsideRect(params, tile) ==
    /\ FGe(tile.center_x, params.hive.rect_x)
    /\ FLe(tile.center_x, FAdd(params.hive.rect_x, params.hive.rect_w))
    /\ FGe(tile.center_y, params.hive.rect_y)
    /\ FLe(tile.center_y, FAdd(params.hive.rect_y, params.hive.rect_h))

\* <<entrance_x, entrance_y>> after the switch on entrance_side
EntranceAnchor(params) ==
    LET rect_x == params.hive.rect_x
        rect_y == params.hive.rect_y
        rect_w == params.hive.rect_w
        rect_h == params.hive.rect_h
        side == params.hive.entrance_side
        tt == clampf(params.hive.entrance_t, F0, F1)
    IN CASE side = 0 -> <<FAdd(rect_x, FMul(tt, rect_w)), rect_y>>
         [] side = 1 -> <<FAdd(rect_x, FMul(tt, rect_w)), FAdd(rect_y, rect_h)>>
         [] side = 2 -> <<rect_x, FAdd(rect_y, FMul(tt, rect_h))>>
         [] side = 3 -> <<FAdd(rect_x, rect_w), FAdd(rect_y, FMul(tt, rect_h))>>
         [] OTHER -> <<rect_x, rect_y>>

\* EntranceHit with the tangent axes of the sides exchanged
EntranceHit_swapped(params, w, tile) ==
    LET anchor == EntranceAnchor(params)
        side == params.hive.entrance_side
        entrance_half == FMul(params.hive.entrance_width, F0_5)
        dx == FSub(tile.center_x, anchor[1])
        dy == FSub(tile.center_y, anchor[2])
        entrance_dist == sqrtf(FAdd(FMul(dx, dx), FMul(dy, dy)))
        axial_extent == IF FGt(params.hive.entrance_width, FZero)
                        THEN FMul(params.hive.entrance_width, F0_5)
                        ELSE w.cell_size
        radial_limit == fmaxf(FMul(w.cell_size, F1_2), entrance_half)
        axial_ok == IF side = 0 \/ side = 1
                    THEN FLe(fabsf(dy), axial_extent)
                    ELSE FLe(fabsf(dx), axial_extent)
    IN axial_ok /\ FLe(entrance_dist, radial_limit)

\* EntranceHit without the limit on the distance to the anchor
EntranceHit_radial(params, w, tile) ==
    LET anchor == EntranceAnchor(params)
        side == params.hive.entrance_side
        entrance_half == FMul(params.hive.entrance_width, F0_5)
        dx == FSub(tile.center_x, anchor[1])
        dy == FSub(tile.center_y, anchor[2])
        entrance_dist == sqrtf(FAdd(FMul(dx, dx), FMul(dy, dy)))
        axial_extent == IF FGt(params.hive.entrance_width, FZero)
                        THEN FMul(params.hive.entrance_width, F0_5)
                        ELSE w.cell_size
        radial_limit == fmaxf(FMul(w.cell_size, F1_2), entrance_half)
        axial_ok == IF side = 0 \/ side = 1
                    THEN FLe(fabsf(dx), axial_extent)
                    ELSE FLe(fabsf(dy), axial_extent)
    IN axial_ok

\* axial_ok && entrance_dist <= radial_limit
EntranceHit(params, w, tile) ==
    LET anchor == EntranceAnchor(params)
        side == params.hive.entrance_side
        entrance_half == FMul(params.hive.entrance_width, F0_5)
        dx == FSub(tile.center_x, anchor[1])
        dy == FSub(tile.center_y, anchor[2])
        entrance_dist == sqrtf(FAdd(FMul(dx, dx), FMul(dy, dy)))
        axial_extent == IF FGt(params.hive.entrance_width, FZero)
                        THEN FMul(params.hive.entrance_width, F0_5)
                        ELSE w.cell_size
        radial_limit == fmaxf(FMul(w.cell_size, F1_2), entrance_half)
        axial_ok == IF side = 0 \/ side = 1
                    THEN FLe(fabsf(dx), axial_extent)
                    ELSE FLe(fabsf(dy), axial_extent)
    IN axial_ok /\ FLe(entrance_dist, radial_limit)

\* dist: the distance of the cell centre from the lattice origin
OriginDist(w, tile) ==
    LET local_x == FSub(tile.center_x, w.origin_x)
        local_y == FSub(tile.center_y, w.origin_y)
    IN sqrtf(FAdd(FMul(local_x, local_x), FMul(local_y, local_y)))

\* a noise source that advances with every cell generated so far
TileNoise_seq(w, tile) ==
    pseudo_noise01(tile.q + Cardinality({i \in 1..Len(w.tiles) :
                                            w.tiles[i].flags = HEX_TILE_VISIBLE}),
                   tile.r)

\* noise = pseudo_noise01(tile->q, tile->r)
TileNoise(w, tile) == pseudo_noise01(tile.q, tile.r)

\* FlowerStock dividing the capacity by the fill fraction
FlowerStock_div(capacity, noise) ==
    FDiv(capacity,
         clampf(FAdd(F0_55, FMul(F0_4, FSub(noise, F0_68))), F0_35, F0_95))

\* the nectar_stock of a Flowers cell
FlowerStock(capacity, noise) ==
    FMul(capacity,
         clampf(FAdd(F0_55, FMul(F0_4, FSub(noise, F0_68))), F0_35, F0_95))

\* assign_tile_defaults applying the bands only within 8 cell sizes of the
\* origin
assign_tile_defaults_far(params, w, tile) ==
    LET t0 == [tile EXCEPT !.terrain = HEX_TERRAIN_OPEN,
                           !.nectar_capacity = FZero,
                           !.nectar_stock = FZero,
                           !.nectar_recharge_rate = FZero,
                           !.flow_capacity = F8,
                           !.flags = HEX_TILE_VISIBLE]
    IN IF params.null THEN t0
       ELSE IF HiveEnabled(params) /\ InsideRect(params, t0)
       THEN [t0 EXCEPT !.terrain = HEX_TERRAIN_HIVE, !.flow_capacity = F35]
       ELSE IF HiveEnabled(params) /\ EntranceHit(params, w, t0)
       THEN [t0 EXCEPT !.terrain = HEX_TERRAIN_ENTRANCE, !.flow_capacity = F26]
       ELSE
       LET dist == OriginDist(w, t0)
           noise == TileNoise(w, t0)
           capacity == FAdd(F240, FMul(F60, noise))
       IN IF FGt(dist, FMul(w.cell_size, F8)) /\ FGt(noise, F0_68)
          THEN [t0 EXCEPT
                  !.terrain = HEX_TERRAIN_FLOWERS,
                  !.nectar_capacity = capacity,
                  !.nectar_stock = FlowerStock(capacity, noise),
                  !.nectar_recharge_rate =
                      FAdd(F4_5, FMul(F2, FSub(noise, F0_68))),
                  !.flow_capacity = F18]
          ELSE IF FGt(dist, FMul(w.cell_size, F8)) THEN t0
          ELSE IF FLt(noise, F0_04)
          THEN [t0 EXCEPT !.terrain = HEX_TERRAIN_WATER, !.flow_capacity = F2]
          ELSE IF FLt(noise, F0_08)
          THEN [t0 EXCEPT !.terrain = HEX_TERRAIN_MOUNTAIN, !.flow_capacity = F1_5]
          ELSE IF FLt(noise, F0_18)
          THEN [t0 EXCEPT !.terrain = HEX_TERRAIN_FOREST,
                          !.flow_capacity = F6,
                          !.nectar_capacity = F30,
                          !.nectar_stock = FMul(F30, F0_3),
                          !.nectar_recharge_rate = F0_8]
          ELSE t0

\* assign_tile_defaults with the capacity of Flowers taken from the excess
\* of the noise over 0.68
assign_tile_defaults_excess(params, w, tile) ==
    LET t0 == [tile EXCEPT !.terrain = HEX_TERRAIN_OPEN,
                           !.nectar_capacity = FZero,
                           !.nectar_stock = FZero,
                           !.nectar_recharge_rate = FZero,
                           !.flow_capacity = F8,
                           !.flags = HEX_TILE_VISIBLE]
    IN IF params.null THEN t0
       ELSE IF HiveEnabled(params) /\ InsideRect(params, t0)
       THEN [t0 EXCEPT !.terrain = HEX_TERRAIN_HIVE, !.flow_capacity = F35]
       ELSE IF HiveEnabled(params) /\ EntranceHit(params, w, t0)
       THEN [t0 EXCEPT !.terrain = HEX_TERRAIN_ENTRANCE, !.flow_capacity = F26]
       ELSE
       LET dist == OriginDist(w, t0)
           noise == TileNoise(w, t0)
           capacity == FAdd(F240, FMul(F60, FSub(noise, F0_68)))
       IN IF FGt(dist, FMul(w.cell_size, F8)) /\ FGt(noise, F0_68)
          THEN [t0 EXCEPT
                  !.terrain = HEX_TERRAIN_FLOWERS,
                  !.nectar_capacity = capacity,
                  !.nectar_stock = FlowerStock(capacity, noise),
                  !.nectar_recharge_rate =
                      FAdd(F4_5, FMul(F2, FSub(noise, F0_68))),
                  !.flow_capacity = F18]
          ELSE IF FLt(noise, F0_04)
          THEN [t0 EXCEPT !.terrain = HEX_TERRAIN_WATER, !.flow_capacity = F2]
          ELSE IF FLt(noise, F0_08)
          THEN [t0 EXCEPT !.terrain = HEX_TERRAIN_MOUNTAIN, !.flow_capacity = F1_5]
          ELSE IF FLt(noise, F0_18)
          THEN [t0 EXCEPT !.terrain = HEX_TERRAIN_FOREST,
                          !.flow_capacity = F6,
                          !.nectar_capacity = F30,
                          !.nectar_stock = FMul(F30, F0_3),
                          !.nectar_recharge_rate = F0_8]
          ELSE t0

assign_tile_defaults(params, w, tile) ==
    LET t0 == [tile EXCEPT !.terrain = HEX_TERRAIN_OPEN,
                           !.nectar_capacity = FZero,
                           !.nectar_stock = FZero,
                           !.nectar_recharge_rate = FZero,
                           !.flow_capacity = F8,
                           !.flags = HEX_TILE_VISIBLE]
    IN IF params.null THEN t0
       ELSE IF HiveEnabled(params) /\ InsideRect(params, t0)
       THEN [t0 EXCEPT !.terrain = HEX_TERRAIN_HIVE, !.flow_capacity = F35]
       ELSE IF HiveEnabled(params) /\ EntranceHit(params, w, t0)
       THEN [t0 EXCEPT !.terrain = HEX_TERRAIN_ENTRANCE, !.flow_capacity = F26]
       ELSE
       LET dist == OriginDist(w, t0)
           noise == TileNoise(w, t0)
           capacity == FAdd(F240, FMul(F60, noise))
       IN IF FGt(dist, FMul(w.cell_size, F8)) /\ FGt(noise, F0_68)
          THEN [t0 EXCEPT
                  !.terrain = HEX_TERRAIN_FLOWERS,
                  !.nectar_capacity = capacity,
                  !.nectar_stock = FlowerStock(capacity, noise),
                  !.nectar_recharge_rate =
                      FAdd(F4_5, FMul(F2, FSub(noise, F0_68))),
                  !.flow_capacity = F18]
          ELSE IF FLt(noise, F0_04)
          THEN [t0 EXCEPT !.terrain = HEX_TERRAIN_WATER, !.flow_capacity = F2]
          ELSE IF FLt(noise, F0_08)
          THEN [t0 EXCEPT !.terrain = HEX_TERRAIN_MOUNTAIN, !.flow_capacity = F1_5]
          ELSE IF FLt(noise, F0_18)
          THEN [t0 EXCEPT !.terrain = HEX_TERRAIN_FOREST,
                          !.flow_capacity = F6,
                          !.nectar_capacity = F30,
                          !.nectar_stock = FMul(F30, F0_3),
                          !.nectar_recharge_rate = F0_8]
          ELSE t0

\* the body of the generation loop for the cell (q, r) stored at index
GenerateTile(params, w, q, r, index) ==
    LET center_x == FMul(FMul(SQRT3, w.cell_size),
                         FAdd(FromInt(q), FMul(FromInt(r), F0_5)))
        center_y == FMul(FMul(F1_5, w.cell_size), FromInt(r))
        tile == [w.tiles[index + 1] EXCEPT
                    !.q = ToInt16(q),
                    !.r = ToInt16(r),
                    !.center_x = FAdd(w.origin_x, center_x),
                    !.center_y = FAdd(w.origin_y, center_y)]
    IN assign_tile_defaults(params, w, tile)

\* FillTiles leaving the last row as calloc returned it
RECURSIVE FillTiles_short(_, _, _, _, _)
FillTiles_short(w, params, r, q, index) ==
    IF r >= params.hex.r_max /\ r > params.hex.r_min THEN w
    ELSE IF q > params.hex.q_max
         THEN FillTiles_short(w, params, r + 1, params.hex.q_min, index)
         ELSE FillTiles_short([w EXCEPT !.tiles[index + 1] =
                                            GenerateTile(params, w, q, r, index)],
                              params, r, q + 1, index + 1)

\* for (r = r_min; r <= r_max; ++r) for (q = q_min; q <= q_max; ++q)
RECURSIVE FillTiles(_, _, _, _, _)
FillTiles(w, params, r, q, index) ==
    IF r > params.hex.r_max THEN w
    ELSE IF q > params.hex.q_max
         THEN FillTiles(w, params, r + 1, params.hex.q_min, index)
         ELSE FillTiles([w EXCEPT !.tiles[index + 1] =
                                      GenerateTile(params, w, q, r, index)],
                        params, r, q + 1, index + 1)

\* calloc(count, sizeof(HexTile)) when it succeeds
calloc(count) == [i \in 1..count |-> ZeroTile]

\* Header keeping the spans in signed 16-bit fields
Header_int16(w0, params) ==
    LET q_span == params.hex.q_max - params.hex.q_min + 1
        r_span == params.hex.r_max - params.hex.r_min + 1
    IN [w0 EXCEPT !.cell_size = params.hex.cell_size,
                  !.origin_x = params.hex.origin_x,
                  !.origin_y = params.hex.origin_y,
                  !.q_min = ToInt16(params.hex.q_min),
                  !.q_max = ToInt16(params.hex.q_max),
                  !.r_min = ToInt16(params.hex.r_min),
                  !.r_max = ToInt16(params.hex.r_max),
                  !.width = ToInt16(q_span),
                  !.height = ToInt16(r_span),
                  !.count = q_span * r_span]

\* the assignments of hex_world_create to the scalar fields
Header(w0, params) ==
    LET q_span == params.hex.q_max - params.hex.q_min + 1
        r_span == params.hex.r_max - params.hex.r_min + 1
    IN [w0 EXCEPT !.cell_size = params.hex.cell_size,
                  !.origin_x = params.hex.origin_x,
                  !.origin_y = params.hex.origin_y,
                  !.q_min = ToInt16(params.hex.q_min),
                  !.q_max = ToInt16(params.hex.q_max),
                  !.r_min = ToInt16(params.hex.r_min),
                  !.r_max = ToInt16(params.hex.r_max),
                  !.width = ToUint16(q_span),
                  !.height = ToUint16(r_span),
                  !.count = q_span * r_span]

\* the generation loop run from its first iteration
RunLoop(w, params) == FillTiles(w, params, params.hex.r_min, params.hex.q_min, 0)

\* RunLoop tabulated for each scene on the array hex_world_create hands it.
\* The variable built holds this table in every state; Populate looks a
\* call up in it and runs the loop otherwise, so that
\* Populate(w, params) = RunLoop(w, params) for every argument
Fresh(p) ==
    LET h == Header(ZeroWorld, p)
    IN [h EXCEPT !.tiles = calloc(h.count)]

Generated ==
    {[params |-> p, before |-> Fresh(p), after |-> RunLoop(Fresh(p), p)]
       : p \in Scenes}

Populate(w, params) ==
    IF \E g \in built : g.params = params /\ g.before = w
    THEN (CHOOSE g \in built : g.params = params /\ g.before = w).after
    ELSE RunLoop(w, params)

\* hex_world_create returning for a null params before it clears the world
hex_world_create_early(w, params, alloc_ok) ==
    LET w0 == hex_world_init(hex_world_destroy(w))
    IN IF params.null
       THEN [world |-> w, ok |-> TRUE, alloc |-> 0]
       ELSE IF ~params.hex.enabled
       THEN [world |-> w0, ok |-> TRUE, alloc |-> 0]
       ELSE
       LET q_span == params.hex.q_max - params.hex.q_min + 1
           r_span == params.hex.r_max - params.hex.r_min + 1
           count == q_span * r_span
           w1 == Header(w0, params)
       IN IF q_span <= 0 \/ r_span <= 0
          THEN [world |-> w0, ok |-> FALSE, alloc |-> 0]
          ELSE IF count = 0
          THEN [world |-> w1, ok |-> TRUE, alloc |-> 0]
          ELSE IF ~alloc_ok
          THEN [world |-> w1, ok |-> FALSE, alloc |-> 0]
          ELSE [world |-> Populate([w1 EXCEPT !.tiles = calloc(count)], params),
                ok |-> TRUE, alloc |-> 1]

\* result: the world after the call, the returned flag, and whether calloc
\* handed out an array
hex_world_create(w, params, alloc_ok) ==
    LET w0 == hex_world_init(hex_world_destroy(w))
    IN IF params.null \/ ~params.hex.enabled
       THEN [world |-> w0, ok |-> TRUE, alloc |-> 0]
       ELSE
       LET q_min == params.hex.q_min
           q_max == params.hex.q_max
           r_min == params.hex.r_min
           r_max == params.hex.r_max
           q_span == q_max - q_min + 1
           r_span == r_max - r_min + 1
           count == q_span * r_span
           w1 == Header(w0, params)
       IN IF q_span <= 0 \/ r_span <= 0
          THEN [world |-> w0, ok |-> FALSE, alloc |-> 0]
          ELSE IF count = 0
          THEN [world |-> w1, ok |-> TRUE, alloc |-> 0]
          ELSE IF ~alloc_ok
          THEN [world |-> w1, ok |-> FALSE, alloc |-> 0]
          ELSE [world |-> Populate([w1 EXCEPT !.tiles = calloc(count)], params),
                ok |-> TRUE, alloc |-> 1]

\* hex_world_in_bounds without the test against q_max
hex_world_in_bounds_open(w, q, r) ==
    IF w.tiles = NULL THEN FALSE
    ELSE q >= w.q_min /\ r >= w.r_min /\ r <= w.r_max

hex_world_in_bounds(w, q, r) ==
    IF w.tiles = NULL THEN FALSE
    ELSE q >= w.q_min /\ q <= w.q_max /\ r >= w.r_min /\ r <= w.r_max

\* hex_world_index with the row stride taken from height
hex_world_index_height(w, q, r) ==
    IF ~hex_world_in_bounds(w, q, r) THEN SIZE_MAX
    ELSE (r - w.r_min) * w.height + (q - w.q_min)

hex_world_index(w, q, r) ==
    IF ~hex_world_in_bounds(w, q, r) THEN SIZE_MAX
    ELSE (r - w.r_min) * w.width + (q - w.q_min)

\* a returned HexTile pointer: null, or &world->tiles[index]
hex_world_tile_mut(w, q, r) ==
    LET index == hex_world_index(w, q, r)
    IN IF index = SIZE_MAX THEN NullTile ELSE [null |-> FALSE, index |-> index]

hex_world_tile(w, q, r) ==
    LET index == hex_world_index(w, q, r)
    IN IF index = SIZE_MAX THEN NullTile ELSE [null |-> FALSE, index |-> index]

hex_axial_to_world(w, q, r) ==
    IF w.tiles = NULL THEN <<FZero, FZero>>
    ELSE <<FAdd(FMul(FMul(SQRT3, w.cell_size),
                     FAdd(FromInt(q), FMul(FromInt(r), F0_5))),
                w.origin_x),
           FAdd(FMul(FMul(F1_5, w.cell_size), FromInt(r)), w.origin_y)>>

\* hex_world_to_axial_f without the translation to the lattice origin
hex_world_to_axial_f_abs(w, world_x, world_y) ==
    IF FLe(w.cell_size, FZero) THEN <<FZero, FZero>>
    ELSE <<FDiv(FSub(FMul(SQRT3_3, world_x), FMul(F1_3, world_y)), w.cell_size),
           FDiv(FMul(F2_3, world_y), w.cell_size)>>

hex_world_to_axial_f(w, world_x, world_y) ==
    IF FLe(w.cell_size, FZero) THEN <<FZero, FZero>>
    ELSE LET x == FSub(world_x, w.origin_x)
             y == FSub(world_y, w.origin_y)
         IN <<FDiv(FSub(FMul(SQRT3_3, x),
                        FMul(F1_3, y)),
                   w.cell_size),
              FDiv(FMul(F2_3, y), w.cell_size)>>

\* hex_axial_round returning the three roundings uncorrected
hex_axial_round_nofix(qf, rf) == <<lrintf(qf), lrintf(rf)>>

\* hex_axial_round comparing the errors with >= instead of >
hex_axial_round_ge(qf, rf) ==
    LET sf == FSub(FNeg(qf), rf)
        q == lrintf(qf)
        r == lrintf(rf)
        s == lrintf(sf)
        q_diff == fabsf(FSub(FromInt(q), qf))
        r_diff == fabsf(FSub(FromInt(r), rf))
        s_diff == fabsf(FSub(FromInt(s), sf))
    IN IF FGe(q_diff, r_diff) /\ FGe(q_diff, s_diff) THEN <<-r - s, r>>
       ELSE IF FGe(r_diff, s_diff) THEN <<q, -q - s>>
       ELSE <<q, r>>

hex_axial_round(qf, rf) ==
    LET sf == FSub(FNeg(qf), rf)
        q == lrintf(qf)
        r == lrintf(rf)
        s == lrintf(sf)
        q_diff == fabsf(FSub(FromInt(q), qf))
        r_diff == fabsf(FSub(FromInt(r), rf))
        s_diff == fabsf(FSub(FromInt(s), sf))
    IN IF FGt(q_diff, r_diff) /\ FGt(q_diff, s_diff) THEN <<-r - s, r>>
       ELSE IF FGt(r_diff, s_diff) THEN <<q, -q - s>>
       ELSE <<q, r>>

\* hex_world_pick without the test of the rounded cell against the window
hex_world_pick_nobounds(w, world_x, world_y) ==
    IF w.tiles = NULL THEN [hit |-> FALSE]
    ELSE LET f == hex_world_to_axial_f(w, world_x, world_y)
             c == hex_axial_round(f[1], f[2])
             index == (c[2] - w.r_min) * w.width + (c[1] - w.q_min)
         IN [hit |-> TRUE, q |-> c[1], r |-> c[2], index |-> index]

hex_world_pick(w, world_x, world_y) ==
    IF w.tiles = NULL THEN [hit |-> FALSE]
    ELSE LET f == hex_world_to_axial_f(w, world_x, world_y)
             c == hex_axial_round(f[1], f[2])
             index == hex_world_index(w, c[1], c[2])
         IN IF ~hex_world_in_bounds(w, c[1], c[2]) THEN [hit |-> FALSE]
            ELSE IF index = SIZE_MAX THEN [hit |-> FALSE]
            ELSE [hit |-> TRUE, q |-> c[1], r |-> c[2], index |-> index]

\* static Params g_params = {0}
ZeroParams ==
    MkParams(FALSE, FZero, FZero, FZero, 0, 1, 0, 1, FZero, FZero, FZero, FZero, 0, FZero, FZero)

\* the fields of a Params the application acts on: its hex and hive blocks
\* p, bee_count, motion_min_speed, hex.show_grid and sim_fixed_dt, the last
\* in units of 1/120 s
AppParams(p, n, speed, show_grid, fixed_dt) ==
    [p |-> p, bee_count |-> n, motion_min_speed |-> speed, show_grid |-> show_grid,
     sim_fixed_dt |-> fixed_dt]

\* the statics of app.c before app_init
AppZero ==
    [initialized |-> FALSE,
     g_params |-> AppParams(ZeroParams, 0, 0, FALSE, 0),
     g_params_runtime |-> AppParams(ZeroParams, 0, 0, FALSE, 0),
     g_sim |-> NULL,
     g_hex_show_grid |-> FALSE,
     g_hex_selected_index |-> SIZE_MAX,
     render_hex |-> [world |-> FALSE, enabled |-> FALSE, selected_index |-> 0],
     ui_selected |-> SIZE_MAX,
     g_sim_fixed_dt |-> 1,
     g_sim_accumulator_sec |-> 0,
     g_sim_paused |-> FALSE,
     g_log_accumulator_sec |-> 0,
     g_log_frame_counter |-> 0,
     g_log_tick_counter |-> 0,
     ticks_this_frame |-> 0]

(***************************************************************************)
(* The lattice store driven by its owner: builds from any configuration,   *)
(* with calloc free to fail, destruction, and the queries.                 *)
(***************************************************************************)
Init ==
    /\ world = ZeroWorld
    /\ cfg = NullParams
    /\ over = FALSE
    /\ ret = [op |-> "none"]
    /\ allocs = 0
    /\ built = Generated
    /\ app = AppZero

\* hex_world_create(&world, p).  cfg remembers the configuration passed, and
\* over that the call found in the world the cells of another configuration;
\* ret also notes whether calloc was willing and how many cell arrays were
\* live when the call reached its allocation
Create(p, alloc_ok) ==
    LET res == hex_world_create(world, p, alloc_ok)
    IN /\ world' = res.world
       /\ cfg' = p
       /\ over' = (world.tiles # NULL /\ cfg # p)
       /\ ret' = [op |-> "create", ok |-> res.ok, alloc_ok |-> alloc_ok,
                  live |-> allocs - Freed(world)]
       /\ allocs' = allocs - Freed(world) + res.alloc
       /\ UNCHANGED <<built, app>>

Destroy ==
    /\ world' = hex_world_destroy(world)
    /\ cfg' = NullParams
    /\ over' = FALSE
    /\ ret' = [op |-> "destroy", held |-> Freed(world)]
    /\ allocs' = allocs - Freed(world)
    /\ UNCHANGED <<built, app>>

\* query coordinates: the window and the ring of cells round it
QueryQ == (world.q_min - 1)..(world.q_max + 1)

QueryR == (world.r_min - 1)..(world.r_max + 1)

Index(q, r) ==
    /\ ret' = [op |-> "index", q |-> q, r |-> r,
               index |-> hex_world_index(world, q, r)]
    /\ UNCHANGED <<world, cfg, over, allocs, built, app>>

Tile(q, r) ==
    /\ ret' = [op |-> "tile", q |-> q, r |-> r,
               index |-> hex_world_index(world, q, r),
               tile |-> hex_world_tile(world, q, r)]
    /\ UNCHANGED <<world, cfg, over, allocs, built, app>>

\* hex_world_tile_mut whose caller clears the flags of the cell through the
\* pointer it is handed
TileMut_write(q, r) ==
    LET index == hex_world_index(world, q, r)
    IN /\ ret' = [op |-> "tile_mut", q |-> q, r |-> r, index |-> index,
                  tile |-> hex_world_tile_mut(world, q, r)]
       /\ world' = IF index = SIZE_MAX THEN world
                   ELSE [world EXCEPT !.tiles[index + 1].flags = 0]
       /\ UNCHANGED <<cfg, over, allocs, built, app>>

TileMut(q, r) ==
    /\ ret' = [op |-> "tile_mut", q |-> q, r |-> r,
               index |-> hex_world_index(world, q, r),
               tile |-> hex_world_tile_mut(world, q, r)]
    /\ UNCHANGED <<world, cfg, over, allocs, built, app>>

\* world points to pick at: the cell centres of the lattice, and the points
\* (0,0), (1000,1000), (50,100) and (50,50)
PickPoints ==
    {<<world.tiles[i].center_x, world.tiles[i].center_y>> : i \in 1..Len(world.tiles)}
        \cup {<<Dec(0, 1), Dec(0, 1)>>, <<Dec(1000, 1), Dec(1000, 1)>>,
              <<Dec(50, 1), Dec(100, 1)>>, <<Dec(50, 1), Dec(50, 1)>>}

Pick(pt) ==
    /\ ret' = [op |-> "pick", x |-> pt[1], y |-> pt[2],
               res |-> hex_world_pick(world, pt[1], pt[2])]
    /\ UNCHANGED <<world, cfg, over, allocs, built, app>>

Next ==
    \/ \E p \in ParamsSet, alloc_ok \in BOOLEAN : Create(p, alloc_ok)
    \/ Destroy
    \/ \E q \in QueryQ, r \in QueryR : Index(q, r)
    \/ \E q \in QueryQ, r \in QueryR : Tile(q, r)
    \/ \E q \in QueryQ, r \in QueryR : TileMut(q, r)
    \/ \E pt \in PickPoints : Pick(pt)

Spec == Init /\ [][Next]_vars

(***************************************************************************)
(* Properties of the lattice store.                                        *)
(***************************************************************************)
Populated == world.tiles # NULL

InWindow(q, r) ==
    q >= world.q_min /\ q <= world.q_max /\ r >= world.r_min /\ r <= world.r_max

RoundTripOf(q, r) ==
    LET xy == hex_axial_to_world(world, q, r)
        f == hex_world_to_axial_f(world, xy[1], xy[2])
    IN hex_axial_round(f[1], f[2])

\* C1: for every integer (q,r) inside the bounds of a built lattice,
\* rounding the fractional axial coordinates of the cell's world position
\* returns exactly (q,r).
C1_RoundTrip ==
    Populated =>
        \A q \in QueryQ, r \in QueryR : InWindow(q, r) => RoundTripOf(q, r) = <<q, r>>

\* a pick at the centre of a cell whose fractional coordinates carry a
\* rounding error has returned that cell
C1_Witness ==
    /\ Populated
    /\ ret.op = "pick"
    /\ ret.res.hit
    /\ \E i \in 1..world.count :
          LET t == world.tiles[i]
              f == hex_world_to_axial_f(world, ret.x, ret.y)
          IN /\ t.center_x = ret.x /\ t.center_y = ret.y
             /\ ret.res.q = t.q /\ ret.res.r = t.r
             /\ f # <<FromInt(t.q), FromInt(t.r)>>

\* C2: in a built lattice hex_world_index maps the in-bounds coordinates
\* one-to-one onto 0..count-1 by (r-r_min)*width + (q-q_min), and the tile
\* stored at that index carries the same q and r.
C2_IndexBijection ==
    Populated =>
        LET window == (world.q_min..world.q_max) \X (world.r_min..world.r_max)
        IN /\ \A c \in window :
                LET i == hex_world_index(world, c[1], c[2])
                IN /\ i = (c[2] - world.r_min) * world.width + (c[1] - world.q_min)
                   /\ i \in 0..(world.count - 1)
                   /\ world.tiles[i + 1].q = c[1]
                   /\ world.tiles[i + 1].r = c[2]
           /\ {hex_world_index(world, c[1], c[2]) : c \in window} = 0..(world.count - 1)
           /\ Cardinality(window) = world.count
           /\ (ret.op = "index" /\ InWindow(ret.q, ret.r)) =>
                 /\ world.tiles[ret.index + 1].q = ret.q
                 /\ world.tiles[ret.index + 1].r = ret.r

\* an index query for a cell beyond the first row and column has answered
C2_Witness ==
    /\ Populated
    /\ ret.op = "index"
    /\ ret.q > world.q_min
    /\ ret.r > world.r_min
    /\ ret.index = (ret.r - world.r_min) * world.width + (ret.q - world.q_min)

\* C3: for every (q,r) outside the window, and for every (q,r) on a lattice
\* that holds no cells, hex_world_index returns SIZE_MAX and hex_world_tile
\* and hex_world_tile_mut return a null pointer, so no element of the tile
\* array is referenced.
C3_OutOfBounds ==
    /\ (/\ ret.op \in {"index", "tile", "tile_mut"}
        /\ (~InWindow(ret.q, ret.r) \/ world.tiles = NULL \/ world.count = 0))
          => /\ ret.index = SIZE_MAX
             /\ ret.op # "index" => ret.tile.null
    /\ \A q \in QueryQ, r \in QueryR :
          (~InWindow(q, r) \/ world.tiles = NULL \/ world.count = 0)
             => /\ hex_world_index(world, q, r) = SIZE_MAX
                /\ hex_world_tile(world, q, r).null
                /\ hex_world_tile_mut(world, q, r).null

\* a tile query one column past a populated window has returned null
C3_Witness ==
    /\ Populated
    /\ ret.op = "tile"
    /\ ret.q = world.q_max + 1
    /\ InWindow(world.q_max, ret.r)
    /\ ret.tile.null

ResourceFields(t) ==
    <<t.terrain, t.nectar_stock, t.nectar_capacity, t.nectar_recharge_rate,
      t.flow_capacity>>

\* C4: whatever the world held before the build, every cell of the lattice
\* has the terrain, stock, capacity, recharge_rate and flow_capacity that
\* generating that cell alone, first, in a freshly allocated lattice of the
\* same configuration yields: two builds of one configuration agree.
C4_Determinism ==
    Populated =>
        \A i \in 1..world.count :
            LET t == world.tiles[i]
            IN ResourceFields(t)
                 = ResourceFields(GenerateTile(cfg, Fresh(cfg), t.q, t.r, i - 1))

\* a build has replaced the cells of another configuration
C4_Witness ==
    /\ Populated
    /\ over
    /\ ret.op = "create"
    /\ ret.ok

\* the centre of t lies in the colony rectangle of cfg, boundary included
InColonyRect(t) ==
    /\ FLe(cfg.hive.rect_x, t.center_x)
    /\ FLe(t.center_x, FAdd(cfg.hive.rect_x, cfg.hive.rect_w))
    /\ FLe(cfg.hive.rect_y, t.center_y)
    /\ FLe(t.center_y, FAdd(cfg.hive.rect_y, cfg.hive.rect_h))

ColonyActive == FLt(FZero, cfg.hive.rect_w) /\ FLt(FZero, cfg.hive.rect_h)

NoResource(t) ==
    /\ t.nectar_capacity = FZero
    /\ t.nectar_stock = FZero
    /\ t.nectar_recharge_rate = FZero

\* C5: with colony placement active, every generated cell whose centre lies
\* inside the placement rectangle (boundary included) is Hive with no
\* resource, whatever its noise value and whether or not it passes the
\* entrance tests.
C5_HivePrecedence ==
    (Populated /\ ColonyActive) =>
        \A i \in 1..world.count :
            LET t == world.tiles[i]
            IN InColonyRect(t) => t.terrain = HEX_TERRAIN_HIVE /\ NoResource(t)

\* the entrance tests as the specification words them: the anchor on the
\* configured side at position t, the offset along the tangent axis within
\* half the entrance width, the distance within max(1.2*cell_size, half width)
EntranceTests(t) ==
    LET side == cfg.hive.entrance_side
        tt == clampf(cfg.hive.entrance_t, F0, F1)
        along_x == FAdd(cfg.hive.rect_x, FMul(tt, cfg.hive.rect_w))
        along_y == FAdd(cfg.hive.rect_y, FMul(tt, cfg.hive.rect_h))
        ax == IF side \in {0, 1} THEN along_x
              ELSE IF side = 2 THEN cfg.hive.rect_x
              ELSE FAdd(cfg.hive.rect_x, cfg.hive.rect_w)
        ay == IF side = 0 THEN cfg.hive.rect_y
              ELSE IF side = 1 THEN FAdd(cfg.hive.rect_y, cfg.hive.rect_h)
              ELSE along_y
        dx == FSub(t.center_x, ax)
        dy == FSub(t.center_y, ay)
        half == FMul(cfg.hive.entrance_width, F0_5)
        offset == IF side \in {0, 1} THEN fabsf(dx) ELSE fabsf(dy)
    IN /\ FLe(offset, half)
       /\ FLe(sqrtf(FAdd(FMul(dx, dx), FMul(dy, dy))),
              fmaxf(FMul(world.cell_size, F1_2), half))

\* a Hive cell passes the entrance tests and another has a noise value of
\* the Forest band
C5_Witness ==
    /\ Populated
    /\ ColonyActive
    /\ \E i \in 1..world.count :
          LET t == world.tiles[i]
          IN InColonyRect(t) /\ t.terrain = HEX_TERRAIN_HIVE /\ EntranceTests(t)
    /\ \E i \in 1..world.count :
          LET t == world.tiles[i]
          IN /\ InColonyRect(t)
             /\ t.terrain = HEX_TERRAIN_HIVE
             /\ FLt(pseudo_noise01(t.q, t.r), F0_18)

\* C6 as stated: a generated cell that passes both entrance tests is
\* Entrance.
C6_Original ==
    (Populated /\ ColonyActive) =>
        \A i \in 1..world.count :
            LET t == world.tiles[i]
            IN EntranceTests(t) => t.terrain = HEX_TERRAIN_ENTRANCE

\* C6: with colony placement active, a generated cell whose centre lies
\* outside the placement rectangle and that passes both entrance tests is
\* Entrance with no resource, even if its noise value and distance satisfy
\* the Flowers or band thresholds.
C6_EntrancePrecedence ==
    (Populated /\ ColonyActive) =>
        \A i \in 1..world.count :
            LET t == world.tiles[i]
            IN (~InColonyRect(t) /\ EntranceTests(t))
                  => t.terrain = HEX_TERRAIN_ENTRANCE /\ NoResource(t)

\* an Entrance cell lies in a flower patch: farther than 8 cell sizes from
\* the origin with noise above 0.68
C6_Witness ==
    /\ Populated
    /\ ColonyActive
    /\ \E i \in 1..world.count :
          LET t == world.tiles[i]
              lx == FSub(t.center_x, world.origin_x)
              ly == FSub(t.center_y, world.origin_y)
          IN /\ t.terrain = HEX_TERRAIN_ENTRANCE
             /\ ~InColonyRect(t)
             /\ EntranceTests(t)
             /\ FLt(F0_68, pseudo_noise01(t.q, t.r))
             /\ FLt(FMul(world.cell_size, F8), sqrtf(FAdd(FMul(lx, lx), FMul(ly, ly))))

\* C7: every generated cell has 0 <= stock <= capacity, and capacity == 0
\* implies stock == 0 and recharge_rate == 0.
C7_ResourceInvariant ==
    Populated =>
        \A i \in 1..world.count :
            LET t == world.tiles[i]
            IN /\ FLe(FZero, t.nectar_stock)
               /\ FLe(t.nectar_stock, t.nectar_capacity)
               /\ t.nectar_capacity = FZero
                     => t.nectar_stock = FZero /\ t.nectar_recharge_rate = FZero

\* a lattice holds a Flowers cell with 0 < stock < capacity, a Forest cell
\* and a cell without resource
C7_Witness ==
    /\ Populated
    /\ \E i \in 1..world.count :
          LET t == world.tiles[i]
          IN /\ t.terrain = HEX_TERRAIN_FLOWERS
             /\ FLt(FZero, t.nectar_stock)
             /\ FLt(t.nectar_stock, t.nectar_capacity)
    /\ \E i \in 1..world.count : world.tiles[i].terrain = HEX_TERRAIN_FOREST
    /\ \E i \in 1..world.count : world.tiles[i].nectar_capacity = FZero

\* C10: after a failed build the lattice is empty: count == 0,
\* width == height == 0 and no cells.
C10_FailedBuildEmpty ==
    (ret.op = "create" /\ ~ret.ok) =>
        /\ world.count = 0
        /\ world.width = 0
        /\ world.height = 0
        /\ world.tiles = NULL

\* C11 as stated: a build given a null configuration reference reports
\* failure and leaves no lattice.
C11_Original ==
    (ret.op = "create" /\ cfg.null) => (~ret.ok /\ world = ZeroWorld)

\* C11: a build given a null configuration reference is treated like a
\* disabled configuration: hex_world_create reports success and leaves the
\* lattice empty, every field zero and no cell array, whatever the world
\* held before.
C11_NullConfig ==
    (ret.op = "create" /\ cfg.null) =>
        (ret.ok /\ world = ZeroWorld /\ allocs = 0)

\* a build with a null configuration has run on a populated lattice
C11_Witness ==
    /\ ret.op = "create"
    /\ cfg.null
    /\ over
    /\ ret.ok

\* the spans of the configuration of the last build
SpansPositive ==
    /\ cfg.hex.q_max - cfg.hex.q_min + 1 > 0
    /\ cfg.hex.r_max - cfg.hex.r_min + 1 > 0

\* C12: a build fails only when calloc fails or a span is not positive, and
\* a successful build of an enabled configuration holds exactly
\* width*height cells, each with its q, r, cached centre, terrain, flags,
\* flow capacity and resource fields assigned.
C12_BuildComplete ==
    ret.op = "create" =>
        /\ ~ret.ok => (~cfg.null /\ cfg.hex.enabled
                         /\ (~SpansPositive \/ ~ret.alloc_ok))
        /\ (ret.ok /\ ~cfg.null /\ cfg.hex.enabled) =>
              /\ world.count = world.width * world.height
              /\ Len(world.tiles) = world.count
              /\ world.count > 0
              /\ \A i \in 1..world.count :
                    LET t == world.tiles[i]
                        q == world.q_min + ((i - 1) % world.width)
                        r == world.r_min + ((i - 1) \div world.width)
                    IN /\ t.q = q
                       /\ t.r = r
                       /\ <<t.center_x, t.center_y>> = hex_axial_to_world(world, q, r)
                       /\ t.terrain \in HEX_TERRAIN_OPEN..HEX_TERRAIN_ENTRANCE
                       /\ t.flags = HEX_TILE_VISIBLE
                       /\ FGt(t.flow_capacity, FZero)
                       /\ FGe(t.nectar_stock, FZero)
                       /\ FLe(t.nectar_stock, t.nectar_capacity)

\* a first build of an enabled configuration has succeeded
C12_Witness ==
    /\ ret.op = "create"
    /\ ret.ok
    /\ ~over
    /\ Populated
    /\ world.count > world.width

\* the cell the pick of ret rounds its point to
PickedCell ==
    LET f == hex_world_to_axial_f(world, ret.x, ret.y)
    IN hex_axial_round(f[1], f[2])

\* C13: hex_world_pick returns no match if the lattice is empty or the
\* rounded cell is outside the window; otherwise it returns the rounded
\* (q, r) together with index = hex_world_index(q, r) < count.
C13_Pick ==
    ret.op = "pick" =>
        IF ~Populated \/ ~InWindow(PickedCell[1], PickedCell[2])
        THEN ~ret.res.hit
        ELSE /\ ret.res.hit
             /\ ret.res.q = PickedCell[1]
             /\ ret.res.r = PickedCell[2]
             /\ ret.res.index = hex_world_index(world, ret.res.q, ret.res.r)
             /\ ret.res.index >= 0
             /\ ret.res.index < world.count

\* a pick on a populated lattice has rounded to a cell outside the window
C13_Witness ==
    /\ ret.op = "pick"
    /\ Populated
    /\ ~InWindow(PickedCell[1], PickedCell[2])
    /\ ~ret.res.hit

\* C14: scenario 1 (cell_size 48, origin (0,0), q and r in [-2,2], no colony
\* placement) builds exactly 25 cells, none of them Hive or Entrance;
\* pick(0,0) returns (0,0) and pick(1000,1000) returns no match.
C14_Scenario1 ==
    (cfg = Scenario1 /\ Populated) =>
        /\ world.count = 25
        /\ Len(world.tiles) = 25
        /\ \A i \in 1..Len(world.tiles) :
              world.tiles[i].terrain \notin {HEX_TERRAIN_HIVE, HEX_TERRAIN_ENTRANCE}
        /\ (ret.op = "pick" /\ ret.x = Dec(0, 1) /\ ret.y = Dec(0, 1)) =>
              (ret.res.hit /\ ret.res.q = 0 /\ ret.res.r = 0)
        /\ (ret.op = "pick" /\ ret.x = Dec(1000, 1) /\ ret.y = Dec(1000, 1)) =>
              ~ret.res.hit

\* the point (0,0) has been picked on the lattice of scenario 1
C14_Witness ==
    /\ cfg = Scenario1
    /\ Populated
    /\ ret.op = "pick"
    /\ ret.x = Dec(0, 1)
    /\ ret.y = Dec(0, 1)
    /\ ret.res.hit

\* the lattice of scenario 2 is populated and ret is a pick at (x, y)
PickAt2(x, y) ==
    /\ cfg = Scenario2(MaxSpan, MaxSpan)
    /\ Populated
    /\ ret.op = "pick"
    /\ ret.x = Dec(x, 1)
    /\ ret.y = Dec(y, 1)

\* C15 as stated: in scenario 2 the cell picked at (50,100) is Entrance and
\* the cell picked at (50,50) is Hive.
C15_Original ==
    /\ PickAt2(50, 100) =>
          (ret.res.hit /\ world.tiles[ret.res.index + 1].terrain = HEX_TERRAIN_ENTRANCE)
    /\ PickAt2(50, 50) =>
          (ret.res.hit /\ world.tiles[ret.res.index + 1].terrain = HEX_TERRAIN_HIVE)

\* C15: in scenario 2 the points (50,100) and (50,50) both pick the cell
\* (0,1), whose centre lies inside the colony rectangle, and that cell is
\* Hive; no cell of the window is Entrance.
C15_Scenario2 ==
    /\ (PickAt2(50, 100) \/ PickAt2(50, 50)) =>
          /\ ret.res.hit
          /\ ret.res.q = 0
          /\ ret.res.r = 1
          /\ world.tiles[ret.res.index + 1].terrain = HEX_TERRAIN_HIVE
    /\ (cfg = Scenario2(MaxSpan, MaxSpan) /\ Populated) =>
          \A i \in 1..Len(world.tiles) :
              world.tiles[i].terrain # HEX_TERRAIN_ENTRANCE

\* the point (50,100) has been picked on the lattice of scenario 2
C15_Witness ==
    /\ PickAt2(50, 100)
    /\ ret.res.hit

\* the centre of t is farther than 8 cell sizes from the lattice origin
FarFromOrigin(t) ==
    LET lx == FSub(t.center_x, world.origin_x)
        ly == FSub(t.center_y, world.origin_y)
    IN FLt(FMul(world.cell_size, F8), sqrtf(FAdd(FMul(lx, lx), FMul(ly, ly))))

\* the terrain the noise rules give a cell
NoiseTerrain(t) ==
    LET noise == pseudo_noise01(t.q, t.r)
    IN IF FarFromOrigin(t) /\ FLt(F0_68, noise) THEN HEX_TERRAIN_FLOWERS
       ELSE IF FLt(noise, F0_04) THEN HEX_TERRAIN_WATER
       ELSE IF FLt(noise, F0_08) THEN HEX_TERRAIN_MOUNTAIN
       ELSE IF FLt(noise, F0_18) THEN HEX_TERRAIN_FOREST
       ELSE HEX_TERRAIN_OPEN

\* C23: a generated cell that neither colony rule has made Hive or Entrance
\* is Flowers iff its centre is farther than 8 cell sizes from the lattice
\* origin and its noise exceeds 0.68; otherwise it is Water for noise < 0.04,
\* Mountain for 0.04 <= noise < 0.08, Forest for 0.08 <= noise < 0.18 and
\* Open in all other cases, at any distance and with the same noise value.
C23_NoiseRules ==
    Populated =>
        \A i \in 1..world.count :
            LET t == world.tiles[i]
            IN t.terrain \notin {HEX_TERRAIN_HIVE, HEX_TERRAIN_ENTRANCE}
                  => t.terrain = NoiseTerrain(t)

\* a lattice holds a Flowers cell and a Forest cell, both farther than 8
\* cell sizes from the origin
C23_Witness ==
    /\ Populated
    /\ \E i \in 1..world.count :
          LET t == world.tiles[i]
          IN t.terrain = HEX_TERRAIN_FLOWERS /\ FarFromOrigin(t)
    /\ \E i \in 1..world.count :
          LET t == world.tiles[i]
          IN t.terrain = HEX_TERRAIN_FOREST /\ FarFromOrigin(t)

\* C24 as stated: the capacity of a Flowers cell is 240 plus a bonus
\* proportional to the excess e = noise - 0.68, and its recharge rate 4.5
\* plus a bonus proportional to e.  A bonus proportional to e that stays
\* within 60 for every e below 0.32 is at most 60 * e / 0.32.
C24_Original ==
    Populated =>
        \A i \in 1..world.count :
            LET t == world.tiles[i]
                e == FSub(pseudo_noise01(t.q, t.r), F0_68)
            IN t.terrain = HEX_TERRAIN_FLOWERS =>
                  /\ FLe(FMul(FSub(t.nectar_capacity, F240), Dec(32, 100)), FMul(F60, e))
                  /\ t.nectar_recharge_rate = FAdd(F4_5, FMul(F2, e))

\* C24: for every Flowers cell the capacity is 240 + 60 * noise, which is
\* 280.8 + 60 * e for the excess e = noise - 0.68 and lies between 280.8
\* and 300, and the recharge rate is 4.5 + 2 * e, between 4.5 and 5.14.
C24_FlowerResource ==
    Populated =>
        \A i \in 1..world.count :
            LET t == world.tiles[i]
                noise == pseudo_noise01(t.q, t.r)
                e == FSub(noise, F0_68)
            IN t.terrain = HEX_TERRAIN_FLOWERS =>
                  /\ t.nectar_capacity = FAdd(F240, FMul(F60, noise))
                  /\ FLe(Dec(2808, 10), t.nectar_capacity)
                  /\ FLe(t.nectar_capacity, Dec(300, 1))
                  /\ t.nectar_recharge_rate = FAdd(F4_5, FMul(F2, e))
                  /\ FLe(F4_5, t.nectar_recharge_rate)
                  /\ FLe(t.nectar_recharge_rate, Dec(514, 100))

\* a lattice holds two Flowers cells of different noise
C24_Witness ==
    /\ Populated
    /\ \E i, j \in 1..world.count :
          /\ world.tiles[i].terrain = HEX_TERRAIN_FLOWERS
          /\ world.tiles[j].terrain = HEX_TERRAIN_FLOWERS
          /\ FLt(world.tiles[i].nectar_capacity, world.tiles[j].nectar_capacity)
          /\ FLt(world.tiles[i].nectar_recharge_rate, world.tiles[j].nectar_recharge_rate)

EntranceTestsWidth(t) ==
    LET side == cfg.hive.entrance_side
        tt == clampf(cfg.hive.entrance_t, F0, F1)
        ax == IF side \in {0, 1} THEN FAdd(cfg.hive.rect_x, FMul(tt, cfg.hive.rect_w))
              ELSE IF side = 2 THEN cfg.hive.rect_x
              ELSE FAdd(cfg.hive.rect_x, cfg.hive.rect_w)
        ay == IF side = 0 THEN cfg.hive.rect_y
              ELSE IF side = 1 THEN FAdd(cfg.hive.rect_y, cfg.hive.rect_h)
              ELSE FAdd(cfg.hive.rect_y, FMul(tt, cfg.hive.rect_h))
        dx == FSub(t.center_x, ax)
        dy == FSub(t.center_y, ay)
        half == FMul(cfg.hive.entrance_width, F0_5)
        offset == IF side \in {0, 1} THEN fabsf(dx) ELSE fabsf(dy)
        limit == IF FLt(FZero, cfg.hive.entrance_width) THEN half ELSE world.cell_size
    IN /\ FLe(offset, limit)
       /\ FLe(sqrtf(FAdd(FMul(dx, dx), FMul(dy, dy))),
              fmaxf(FMul(world.cell_size, F1_2), half))

C30_OriginWater ==
    /\ pseudo_noise01(0, 0) = FZero
    /\ (Populated /\ hex_world_in_bounds(world, 0, 0)) =>
          LET t == world.tiles[hex_world_tile(world, 0, 0).index + 1]
          IN /\ t.q = 0
             /\ t.r = 0
             /\ t.terrain \in {HEX_TERRAIN_WATER, HEX_TERRAIN_HIVE, HEX_TERRAIN_ENTRANCE}
             /\ t.terrain = HEX_TERRAIN_HIVE => (ColonyActive /\ InColonyRect(t))
             /\ t.terrain = HEX_TERRAIN_ENTRANCE => (ColonyActive /\ EntranceTestsWidth(t))

\* a lattice without colony placement holds the cell at the axial origin,
\* and it is Water
C30_Witness ==
    /\ Populated
    /\ ~ColonyActive
    /\ hex_world_in_bounds(world, 0, 0)
    /\ world.tiles[hex_world_tile(world, 0, 0).index + 1].terrain = HEX_TERRAIN_WATER

(***************************************************************************)
(* hex_axial_round on its own, applied to the fractional axial points      *)
(* a / 2^FracBits, b / 2^FracBits with |a|, |b| <= MaxCoord * 2^FracBits.  *)
(* These points and the differences the function takes of them are exact   *)
(* in binary32.                                                            *)
(***************************************************************************)
FracBits == 2

MaxCoord == 2

Grid == (-(MaxCoord * Pow2(FracBits)))..(MaxCoord * Pow2(FracBits))

\* the float k / 2^FracBits
Frac(k) == RoundF(Sgn(k), Abs(k), -FracBits)

\* the lattice store idle and a point (a, b) of the grid waiting to be rounded
InitRound ==
    /\ world = ZeroWorld
    /\ cfg = NullParams
    /\ over = FALSE
    /\ allocs = 0
    /\ built = Generated
    /\ app = AppZero
    /\ \E a \in Grid, b \in Grid : ret = [op |-> "point", a |-> a, b |-> b]

\* hex_axial_round(qf, rf, &q, &r) on the waiting point
AxialRound ==
    /\ ret.op = "point"
    /\ LET c == hex_axial_round(Frac(ret.a), Frac(ret.b))
       IN ret' = [op |-> "round", a |-> ret.a, b |-> ret.b, q |-> c[1], r |-> c[2]]
    /\ UNCHANGED <<world, cfg, over, allocs, built, app>>

NextRound == AxialRound

SpecRound == InitRound /\ [][NextRound]_vars

\* the three independent roundings of the point of ret and their errors, in
\* units of 2^-FracBits
Q0 == lrintf(Frac(ret.a))

R0 == lrintf(Frac(ret.b))

S0 == lrintf(Frac(-ret.a - ret.b))

QErr == Abs(Q0 * Pow2(FracBits) - ret.a)

RErr == Abs(R0 * Pow2(FracBits) - ret.b)

SErr == Abs(S0 * Pow2(FracBits) + ret.a + ret.b)

\* C8 as stated: when two rounding errors are equal and largest, q is
\* corrected in preference to r and r in preference to s.
C8_Original ==
    ret.op = "round" =>
        /\ (QErr >= RErr /\ QErr >= SErr /\ (QErr = RErr \/ QErr = SErr))
              => <<ret.q, ret.r>> = <<-R0 - S0, R0>>
        /\ (RErr = SErr /\ RErr > QErr) => <<ret.q, ret.r>> = <<Q0, -Q0 - S0>>

\* C8: when two rounding errors are equal and largest, the later coordinate
\* is the one corrected, s in preference to r and r in preference to q: a
\* tie of q and r recomputes r from q and s, and a tie with s leaves the
\* roundings of q and r as they are (the implied s absorbs the correction).
C8_TieBreak ==
    ret.op = "round" =>
        /\ (QErr = RErr /\ RErr > SErr) => <<ret.q, ret.r>> = <<Q0, -Q0 - S0>>
        /\ ((QErr = SErr /\ SErr >= RErr) \/ (RErr = SErr /\ SErr >= QErr))
              => <<ret.q, ret.r>> = <<Q0, R0>>

\* the point (0.5, 0.5), whose q and r errors tie, has been rounded to (0, 1)
C8_Witness ==
    /\ ret.op = "round"
    /\ 2 * ret.a = Pow2(FracBits)
    /\ 2 * ret.b = Pow2(FracBits)
    /\ QErr = RErr /\ RErr > SErr
    /\ ret.q = 0
    /\ ret.r = 1

\* twice the cube distance from the point of ret to the cell (q, r), and
\* the largest cube coordinate difference, in units of 2^-FracBits
CubeL1(q, r) ==
    Abs(q * Pow2(FracBits) - ret.a) + Abs(r * Pow2(FracBits) - ret.b)
        + Abs((-q - r) * Pow2(FracBits) + ret.a + ret.b)

Max3(x, y, z) == IF x >= y /\ x >= z THEN x ELSE IF y >= z THEN y ELSE z

CubeMax(q, r) ==
    Max3(Abs(q * Pow2(FracBits) - ret.a), Abs(r * Pow2(FracBits) - ret.b),
         Abs((-q - r) * Pow2(FracBits) + ret.a + ret.b))

\* C9: hex_axial_round returns an integer cell whose cube distance to the
\* fractional point is minimal among the integer cells (q, r, -q-r).
C9_NearestCell ==
    ret.op = "round" =>
        \A q \in (-(MaxCoord + 2))..(MaxCoord + 2), r \in (-(MaxCoord + 2))..(MaxCoord + 2) :
            /\ CubeL1(ret.q, ret.r) <= CubeL1(q, r)
            /\ CubeMax(ret.q, ret.r) <= CubeMax(q, r)

\* the three roundings did not sum to zero and one was corrected
C9_Witness ==
    /\ ret.op = "round"
    /\ Q0 + R0 + S0 # 0
    /\ <<ret.q, ret.r>> # <<Q0, R0>>

(***************************************************************************)
(* The lifetime calls on their own: hex_world_init, hex_world_create and   *)
(* hex_world_destroy in any order.  allocs counts the cell arrays that     *)
(* calloc has handed out and free has not taken back.                      *)
(***************************************************************************)
MaxLeaked == 1

\* hex_world_init(&world): the fields are zeroed and nothing is freed.  The
\* call is taken while it leaves at most MaxLeaked arrays unreferenced.
HexInit ==
    /\ allocs <= MaxLeaked
    /\ world' = hex_world_init(world)
    /\ cfg' = NullParams
    /\ over' = FALSE
    /\ ret' = [op |-> "init", held |-> Freed(world)]
    /\ UNCHANGED <<allocs, built, app>>

NextLife ==
    \/ \E p \in ParamsSet, alloc_ok \in BOOLEAN : Create(p, alloc_ok)
    \/ Destroy
    \/ HexInit

SpecLife == Init /\ [][NextLife]_vars

\* the number of cell arrays the world refers to
Held == IF world.tiles # NULL THEN 1 ELSE 0

\* C17 as stated: after any sequence of init/create/destroy calls the only
\* live cell array is the one the lattice refers to, and every build found
\* no array live when it allocated.
C17_Original ==
    /\ allocs = Held
    /\ ret.op = "create" => ret.live = 0

\* C17: every rebuild releases the previous cell array before it allocates
\* the new one, and as long as hex_world_init is only called on a lattice
\* that holds no cells, every call leaves at most one allocation live and
\* none leaked: the live arrays are exactly the one the lattice refers to.
C17_ReleaseBeforeAlloc ==
    [][(allocs = Held /\ ~(Populated /\ ret'.op = "init"))
          => /\ allocs' = IF world'.tiles # NULL THEN 1 ELSE 0
             /\ allocs' <= 1
             /\ ret'.op = "create" => ret'.live = 0]_vars

\* a build has replaced a populated lattice and one array is live
C17_Witness ==
    /\ ret.op = "create"
    /\ ret.ok
    /\ over
    /\ Populated
    /\ ret.live = 0
    /\ allocs = 1

\* C18: hex_world_destroy releases the cell array and leaves every field of
\* the lattice zero; calling it again changes nothing and frees nothing, so
\* no array is ever freed twice.
C18_DestroyIdempotent ==
    /\ allocs >= 0
    /\ ret.op = "destroy" =>
          /\ world = ZeroWorld
          /\ Held = 0
          /\ Freed(world) = 0
          /\ hex_world_destroy(world) = world

\* hex_world_destroy has been called on a lattice that was already empty
C18_Witness ==
    /\ ret.op = "destroy"
    /\ ret.held = 0
    /\ world = ZeroWorld

(***************************************************************************)
(* params_validate (src/src/config/params.c).  The checks of the fields    *)
(* that come before and after the hex block are summarised by two flags:   *)
(* pre_ok, all checks of lines 118-164 pass, and post_ok, all checks of    *)
(* lines 217-418 pass.  err is the message left in the caller's buffer.    *)
(***************************************************************************)
INT16_MIN == -32768

INT16_MAX == 32767

\* params_validate rejecting only a negative cell_size
params_validate_cell(params, pre_ok, post_ok) ==
    IF params.null THEN [ok |-> FALSE, err |-> "Params pointer is null"]
    ELSE IF ~pre_ok THEN [ok |-> FALSE, err |-> "a field checked before hex is invalid"]
    ELSE IF params.hex.enabled /\ FLt(params.hex.cell_size, FZero)
    THEN [ok |-> FALSE, err |-> "hex cell_size must be > 0"]
    ELSE IF params.hex.enabled /\ params.hex.q_min > params.hex.q_max
    THEN [ok |-> FALSE, err |-> "hex q_min must be <= q_max"]
    ELSE IF params.hex.enabled /\ params.hex.r_min > params.hex.r_max
    THEN [ok |-> FALSE, err |-> "hex r_min must be <= r_max"]
    ELSE IF params.hex.enabled
            /\ (\/ params.hex.q_min < INT16_MIN \/ params.hex.q_max > INT16_MAX
                \/ params.hex.r_min < INT16_MIN \/ params.hex.r_max > INT16_MAX)
    THEN [ok |-> FALSE, err |-> "hex axial bounds must fit within int16 range"]
    ELSE IF params.hex.enabled
            /\ (\/ params.hex.q_max - params.hex.q_min + 1 <= 0
                \/ params.hex.r_max - params.hex.r_min + 1 <= 0)
    THEN [ok |-> FALSE, err |-> "hex spans must be positive"]
    ELSE IF params.hex.enabled
            /\ (\/ params.hex.q_max - params.hex.q_min + 1 > 65535
                \/ params.hex.r_max - params.hex.r_min + 1 > 65535)
    THEN [ok |-> FALSE, err |-> "hex spans exceed supported limits (<= 65535)"]
    ELSE IF ~post_ok THEN [ok |-> FALSE, err |-> "a field checked after hex is invalid"]
    ELSE [ok |-> TRUE, err |-> ""]

\* params_validate accepting a span of 65536
params_validate_span(params, pre_ok, post_ok) ==
    IF params.null THEN [ok |-> FALSE, err |-> "Params pointer is null"]
    ELSE IF ~pre_ok THEN [ok |-> FALSE, err |-> "a field checked before hex is invalid"]
    ELSE IF params.hex.enabled /\ FLe(params.hex.cell_size, FZero)
    THEN [ok |-> FALSE, err |-> "hex cell_size must be > 0"]
    ELSE IF params.hex.enabled /\ params.hex.q_min > params.hex.q_max
    THEN [ok |-> FALSE, err |-> "hex q_min must be <= q_max"]
    ELSE IF params.hex.enabled /\ params.hex.r_min > params.hex.r_max
    THEN [ok |-> FALSE, err |-> "hex r_min must be <= r_max"]
    ELSE IF params.hex.enabled
            /\ (\/ params.hex.q_min < INT16_MIN \/ params.hex.q_max > INT16_MAX
                \/ params.hex.r_min < INT16_MIN \/ params.hex.r_max > INT16_MAX)
    THEN [ok |-> FALSE, err |-> "hex axial bounds must fit within int16 range"]
    ELSE IF params.hex.enabled
            /\ (\/ params.hex.q_max - params.hex.q_min + 1 <= 0
                \/ params.hex.r_max - params.hex.r_min + 1 <= 0)
    THEN [ok |-> FALSE, err |-> "hex spans must be positive"]
    ELSE IF params.hex.enabled
            /\ (\/ params.hex.q_max - params.hex.q_min + 1 > 65536
                \/ params.hex.r_max - params.hex.r_min + 1 > 65536)
    THEN [ok |-> FALSE, err |-> "hex spans exceed supported limits (<= 65535)"]
    ELSE IF ~post_ok THEN [ok |-> FALSE, err |-> "a field checked after hex is invalid"]
    ELSE [ok |-> TRUE, err |-> ""]

params_validate(params, pre_ok, post_ok) ==
    IF params.null THEN [ok |-> FALSE, err |-> "Params pointer is null"]
    ELSE IF ~pre_ok THEN [ok |-> FALSE, err |-> "a field checked before hex is invalid"]
    ELSE IF params.hex.enabled /\ FLe(params.hex.cell_size, FZero)
    THEN [ok |-> FALSE, err |-> "hex cell_size must be > 0"]
    ELSE IF params.hex.enabled /\ params.hex.q_min > params.hex.q_max
    THEN [ok |-> FALSE, err |-> "hex q_min must be <= q_max"]
    ELSE IF params.hex.enabled /\ params.hex.r_min > params.hex.r_max
    THEN [ok |-> FALSE, err |-> "hex r_min must be <= r_max"]
    ELSE IF params.hex.enabled
            /\ (\/ params.hex.q_min < INT16_MIN \/ params.hex.q_max > INT16_MAX
                \/ params.hex.r_min < INT16_MIN \/ params.hex.r_max > INT16_MAX)
    THEN [ok |-> FALSE, err |-> "hex axial bounds must fit within int16 range"]
    ELSE IF params.hex.enabled
            /\ (\/ params.hex.q_max - params.hex.q_min + 1 <= 0
                \/ params.hex.r_max - params.hex.r_min + 1 <= 0)
    THEN [ok |-> FALSE, err |-> "hex spans must be positive"]
    ELSE IF params.hex.enabled
            /\ (\/ params.hex.q_max - params.hex.q_min + 1 > 65535
                \/ params.hex.r_max - params.hex.r_min + 1 > 65535)
    THEN [ok |-> FALSE, err |-> "hex spans exceed supported limits (<= 65535)"]
    ELSE IF ~post_ok THEN [ok |-> FALSE, err |-> "a field checked after hex is invalid"]
    ELSE [ok |-> TRUE, err |-> ""]

\* values of q_min, q_max, r_min, r_max on both sides of the int16 limits
BoundVals == {INT16_MIN - 1, INT16_MIN, 0, INT16_MAX, INT16_MAX + 1}

\* values of cell_size: negative, zero and positive
CellSizes == {Dec(-1, 1), Dec(0, 1), Dec(48, 1)}

ValidateParams(enabled, cell_size, q_min, q_max, r_min, r_max) ==
    [SceneOrigin(1, 1) EXCEPT !.hex.enabled = enabled,
                              !.hex.cell_size = cell_size,
                              !.hex.q_min = q_min, !.hex.q_max = q_max,
                              !.hex.r_min = r_min, !.hex.r_max = r_max]

\* a Params record waiting to be validated, its buffer holding no message
InitValidate ==
    /\ world = ZeroWorld
    /\ cfg = NullParams
    /\ over = FALSE
    /\ allocs = 0
    /\ built = Generated
    /\ app = AppZero
    /\ \E enabled \in BOOLEAN, cell_size \in CellSizes,
          q_min \in BoundVals, q_max \in BoundVals,
          r_min \in BoundVals, r_max \in BoundVals,
          pre_ok \in BOOLEAN, post_ok \in BOOLEAN :
          ret = [op |-> "params",
                 params |-> ValidateParams(enabled, cell_size, q_min, q_max, r_min, r_max),
                 pre_ok |-> pre_ok, post_ok |-> post_ok]

\* params_validate(&params, err, sizeof err)
Validate ==
    /\ ret.op = "params"
    /\ LET res == params_validate(ret.params, ret.pre_ok, ret.post_ok)
       IN ret' = [op |-> "validate", params |-> ret.params,
                  ok |-> res.ok, err |-> res.err]
    /\ UNCHANGED <<world, cfg, over, allocs, built, app>>

\* hex_world_create on the record params_validate has accepted, as app_init
\* does; calloc may return an array of at most MaxSpan * MaxSpan cells
CreateValidated(alloc_ok) ==
    /\ ret.op = "validate"
    /\ ret.ok
    /\ (alloc_ok /\ ret.params.hex.enabled) =>
         (ret.params.hex.q_max - ret.params.hex.q_min + 1)
           * (ret.params.hex.r_max - ret.params.hex.r_min + 1) <= MaxSpan * MaxSpan
    /\ \E res \in {hex_world_create(world, ret.params, alloc_ok)} :
          /\ world' = res.world
          /\ cfg' = ret.params
          /\ over' = FALSE
          /\ ret' = [op |-> "create", ok |-> res.ok, alloc_ok |-> alloc_ok,
                     live |-> allocs - Freed(world), validated |-> TRUE]
          /\ allocs' = allocs - Freed(world) + res.alloc
    /\ UNCHANGED <<built, app>>

\* hex_world_create on a record that params_validate has not seen, for the
\* windows of one cell
CreateDirect(alloc_ok) ==
    /\ ret.op = "params"
    /\ ret.params.hex.enabled
    /\ ret.params.hex.q_min = ret.params.hex.q_max
    /\ ret.params.hex.r_min = ret.params.hex.r_max
    /\ \E res \in {hex_world_create(world, ret.params, alloc_ok)} :
          /\ world' = res.world
          /\ cfg' = ret.params
          /\ over' = FALSE
          /\ ret' = [op |-> "create", ok |-> res.ok, alloc_ok |-> alloc_ok,
                     live |-> allocs - Freed(world), validated |-> FALSE]
          /\ allocs' = allocs - Freed(world) + res.alloc
    /\ UNCHANGED <<built, app>>

\* the points picked on the lattice of a record: the origin, a far point and
\* the centre of its first cell
RecordPoints ==
    {<<Dec(0, 1), Dec(0, 1)>>, <<Dec(1000, 1), Dec(1000, 1)>>}
        \cup {<<world.tiles[i].center_x, world.tiles[i].center_y>> : i \in 1..Len(world.tiles)}

\* hex_world_pick on the lattice of the record; degenerate says that the
\* call reached hex_world_to_axial_f and took its branch cell_size <= 0
PickRecord(pt) ==
    /\ ret.op = "create"
    /\ ret' = [op |-> "pick", validated |-> ret.validated,
               res |-> hex_world_pick(world, pt[1], pt[2]),
               degenerate |-> (world.tiles # NULL /\ FLe(world.cell_size, FZero))]
    /\ UNCHANGED <<world, cfg, over, allocs, built, app>>

NextValidate ==
    \/ Validate
    \/ \E alloc_ok \in BOOLEAN : CreateValidated(alloc_ok)
    \/ \E alloc_ok \in BOOLEAN : CreateDirect(alloc_ok)
    \/ \E pt \in RecordPoints : PickRecord(pt)

SpecValidate == InitValidate /\ [][NextValidate]_vars

\* the conditions on the hex block of the record of ret
HexValid ==
    LET h == ret.params.hex
    IN /\ FGt(h.cell_size, FZero)
       /\ h.q_min <= h.q_max
       /\ h.r_min <= h.r_max
       /\ h.q_min >= INT16_MIN /\ h.q_max <= INT16_MAX
       /\ h.r_min >= INT16_MIN /\ h.r_max <= INT16_MAX
       /\ h.q_max - h.q_min + 1 \in 1..65535
       /\ h.r_max - h.r_min + 1 \in 1..65535

\* C19: params_validate accepts a configuration with hex enabled only if
\* cell_size > 0, q_min <= q_max, r_min <= r_max, the four bounds lie in the
\* signed 16-bit range and both spans are in 1..65535; a configuration with
\* hex enabled that violates one of these is rejected with a non-empty
\* message in the caller's buffer.
C19_ValidateHex ==
    (ret.op = "validate" /\ ret.params.hex.enabled) =>
        /\ ret.ok => HexValid
        /\ ~HexValid => (~ret.ok /\ ret.err # "")

\* a window spanning the whole int16 range, 65536 cells wide, was rejected
C19_Witness ==
    /\ ret.op = "validate"
    /\ ret.params.hex.enabled
    /\ ret.params.hex.q_min = INT16_MIN
    /\ ret.params.hex.q_max = INT16_MAX
    /\ ret.err = "hex spans exceed supported limits (<= 65535)"
    /\ ~ret.ok

\* the sizes and bounds of the lattice are those of the configuration cfg
SizesOf(w, h) ==
    /\ w.width = h.q_max - h.q_min + 1
    /\ w.height = h.r_max - h.r_min + 1
    /\ w.count = w.width * w.height
    /\ w.q_min = h.q_min
    /\ w.q_max = h.q_max
    /\ w.r_min = h.r_min
    /\ w.r_max = h.r_max

\* C21: after every successful build from a configuration accepted by
\* params_validate, width = q_max - q_min + 1, height = r_max - r_min + 1 and
\* count = width * height, and the stored bounds, width and height equal the
\* configured integers; a build that fails at calloc leaves the same sizes.
C21_SizeInvariant ==
    (ret.op = "create" /\ ret.validated /\ cfg.hex.enabled) => SizesOf(world, cfg.hex)

\* a one-cell lattice at the corner (INT16_MIN, INT16_MAX) of the int16 range
\* has been built
C21_Witness ==
    /\ ret.op = "create"
    /\ ret.validated
    /\ ret.ok
    /\ cfg.hex.enabled
    /\ Populated
    /\ cfg.hex.q_min = INT16_MIN
    /\ cfg.hex.r_max = INT16_MAX
    /\ world.q_min = INT16_MIN
    /\ world.r_max = INT16_MAX
    /\ world.count = 1

\* the lattice holds cells and its cell_size is not positive, which is when
\* hex_world_pick takes the branch cell_size <= 0 of hex_world_to_axial_f
Degenerate == Populated /\ FLe(world.cell_size, FZero)

MaxNoise == 6

NoiseCoords == (-MaxNoise..MaxNoise) \cup {INT16_MIN, INT16_MAX, 59}

\* the lattice store idle and a coordinate pair waiting to be hashed
InitNoise ==
    /\ world = ZeroWorld
    /\ cfg = NullParams
    /\ over = FALSE
    /\ allocs = 0
    /\ built = Generated
    /\ app = AppZero
    /\ \E q \in NoiseCoords, r \in NoiseCoords : ret = [op |-> "coords", q |-> q, r |-> r]

\* pseudo_noise01(q, r)
Noise ==
    /\ ret.op = "coords"
    /\ ret' = [op |-> "noise", q |-> ret.q, r |-> ret.r,
               v |-> pseudo_noise01(ret.q, ret.r)]
    /\ UNCHANGED <<world, cfg, over, allocs, built, app>>

NextNoise == Noise

SpecNoise == InitNoise /\ [][NextNoise]_vars

(* The formula of the noise field worked out a second way: 32-bit words   *)
(* as pairs of 16-bit halves, products a byte at a time, XOR as            *)
(* x + y - 2 (x AND y).                                                    *)
RefWord(n) ==
    IF n >= 0 THEN <<n \div 65536, n % 65536>>
    ELSE <<65535 - ((-n - 1) \div 65536), 65535 - ((-n - 1) % 65536)>>

RefAdd(a, b) ==
    <<(a[1] + b[1] + ((a[2] + b[2]) \div 65536)) % 65536, (a[2] + b[2]) % 65536>>

\* a * m mod 2^32 for 0 <= m <= 256
RefScale(a, m) ==
    <<(a[1] * m + ((a[2] * m) \div 65536)) % 65536, (a[2] * m) % 65536>>

\* a * n mod 2^32, n taken a byte at a time
RECURSIVE RefMul(_, _)
RefMul(a, n) ==
    IF n = 0 THEN <<0, 0>>
    ELSE RefAdd(RefScale(a, n % 256), RefScale(RefMul(a, n \div 256), 256))

RECURSIVE RefAnd(_, _)
RefAnd(x, y) ==
    IF x = 0 \/ y = 0 THEN 0
    ELSE (x % 2) * (y % 2) + 2 * RefAnd(x \div 2, y \div 2)

RefXor(a, b) ==
    <<a[1] + b[1] - 2 * RefAnd(a[1], b[1]), a[2] + b[2] - 2 * RefAnd(a[2], b[2])>>

RefShr(a, k) ==
    <<a[1] \div Pow2(k), (a[2] \div Pow2(k)) + (a[1] % Pow2(k)) * Pow2(16 - k)>>

\* the low 24 bits of the mixed hash of (q, r)
RefBits(q, r) ==
    LET h0 == RefXor(RefMul(RefWord(q), 73856093), RefMul(RefWord(r), 19349663))
        h1 == RefXor(h0, RefShr(h0, 13))
        h2 == RefMul(h1, 1540483477)
        h3 == RefXor(h2, RefShr(h2, 15))
    IN (h3[1] % 256) * 65536 + h3[2]

\* values of h & 0xFFFFFF computed with uint32_t arithmetic
NoiseVectors ==
    {<<0, 0, 0>>, <<1, 0, 7712859>>, <<0, 1, 10117949>>, <<-1, 0, 14622202>>,
     <<0, -1, 14801332>>, <<-3, 5, 16584263>>, <<6, -6, 8817137>>,
     <<32767, -32768, 1913486>>, <<59, 2, 293833>>, <<-32768, 32767, 14348200>>}

\* the float v is exactly m / 2^24
IsBits24(v, m) ==
    IF m = 0 THEN v = FZero
    ELSE /\ v[2] <= -24
         /\ v[2] >= -48
         /\ v[1] = m * Pow2(-24 - v[2])

\* C20: pseudo_noise01(q, r) depends on (q, r) only and equals
\* (h mod 2^24) / 2^24 for h = q*73856093 XOR r*19349663, h ^= h >> 13,
\* h *= 0x5bd1e995, h ^= h >> 15 in wrapping 32-bit unsigned arithmetic,
\* negative q and r included; it lies in [0, 1).
C20_Noise ==
    ret.op = "noise" =>
        /\ IsBits24(ret.v, RefBits(ret.q, ret.r))
        /\ RefBits(ret.q, ret.r) \in 0..16777215
        /\ FGe(ret.v, FZero)
        /\ FLt(ret.v, F1)
        /\ \A t \in NoiseVectors :
              (t[1] = ret.q /\ t[2] = ret.r) => IsBits24(ret.v, t[3])

\* a pair with a negative coordinate has been hashed to a non-zero value
C20_Witness ==
    /\ ret.op = "noise"
    /\ ret.q = -3
    /\ ret.r = 5
    /\ IsBits24(ret.v, 16584263)

(***************************************************************************)
(* The hosting application: app_init builds the lattice from the           *)
(* configuration it is given, the panel edits the runtime copy of the      *)
(* parameters, and app_apply_runtime_params makes the runtime copy the     *)
(* active configuration.                                                   *)
(***************************************************************************)

\* the largest bee_count the panel is driven to
MaxBees == 3

\* the largest motion_min_speed the panel's slider is dragged to
MaxSpeed == 1

\* bee_count of the configurations handed to app_init; 0 fails validation
BeeCounts == 0 .. 1

\* the configurations handed to app_init
AppConfigs ==
    {NullParams, Disabled, SceneOrigin(MaxSpan, MaxSpan), SceneDefaults(MaxSpan, MaxSpan),
     Scenario2(MaxSpan, MaxSpan), SceneOrigin(0, MaxSpan)}

\* the check of bee_count in params_validate
BeeCountValid(n) == ~(n = 0 \/ n > 1000000)

\* params_validate on the fields the application acts on
AppValid(P) ==
    params_validate(P.p, TRUE,
                    BeeCountValid(P.bee_count) /\ ~(P.sim_fixed_dt <= 0)
                        /\ ~(P.motion_min_speed <= 0)).ok

\* render_hex_set(&g_render, &params) over lattice w: the hex_params the
\* renderer keeps
render_hex_set(params, w) ==
    LET p1 == IF ~params.world THEN [params EXCEPT !.enabled = FALSE] ELSE params
    IN IF ~p1.enabled THEN [p1 EXCEPT !.selected_index = SIZE_MAX]
       ELSE IF p1.selected_index = SIZE_MAX \/ p1.selected_index >= w.count
       THEN [p1 EXCEPT !.selected_index = SIZE_MAX]
       ELSE p1

\* app_refresh_hex_overlay that takes the overlay for active on count alone
app_refresh_hex_overlay_count(w, show_grid, enabled, selected) ==
    LET grid_requested == show_grid /\ enabled
        grid_active == grid_requested /\ w.count > 0
        selected_index == IF grid_active /\ selected # SIZE_MAX /\ selected < w.count
                          THEN selected ELSE SIZE_MAX
    IN [render_hex |-> render_hex_set([world |-> grid_active, enabled |-> grid_active,
                                       selected_index |-> selected_index], w),
        ui_overlay |-> grid_requested,
        ui_selected |-> IF grid_active THEN selected_index ELSE SIZE_MAX,
        g_hex_selected_index |-> IF grid_active /\ selected_index # SIZE_MAX
                                 THEN selected ELSE SIZE_MAX]

\* app_refresh_hex_overlay over lattice w with g_hex_show_grid = show_grid,
\* g_params.hex.enabled = enabled and g_hex_selected_index = selected:
\* what the renderer and the panel are handed (ui_selected is the index of
\* the cell read for the panel, SIZE_MAX when none is read) and the
\* selection kept
app_refresh_hex_overlay(w, show_grid, enabled, selected) ==
    LET grid_requested == show_grid /\ enabled
        grid_active == grid_requested /\ w.tiles # NULL /\ w.count > 0
        selected_index == IF grid_active /\ selected # SIZE_MAX /\ selected < w.count
                          THEN selected ELSE SIZE_MAX
    IN [render_hex |-> render_hex_set([world |-> grid_active, enabled |-> grid_active,
                                       selected_index |-> selected_index], w),
        ui_overlay |-> grid_requested,
        ui_selected |-> IF grid_active THEN selected_index ELSE SIZE_MAX,
        g_hex_selected_index |-> IF grid_active /\ selected_index # SIZE_MAX
                                 THEN selected ELSE SIZE_MAX]

\* app_rebuild_hex_world that never creates the lattice
app_rebuild_hex_world_skip(w, params, alloc_ok) ==
    [world |-> hex_world_init(hex_world_destroy(w)), ok |-> TRUE, alloc |-> 0]

\* app_rebuild_hex_world over lattice w with g_params = params
app_rebuild_hex_world(w, params, alloc_ok) ==
    LET w0 == hex_world_init(hex_world_destroy(w))
    IN IF params.hex.enabled
       THEN hex_world_create(w0, params, alloc_ok)
       ELSE [world |-> w0, ok |-> TRUE, alloc |-> 0]

\* app_init(params) with bee_count n and hex.show_grid show_grid; plat_ok
\* says plat_init and render_init succeed, sim_ok that sim_init succeeds
AppInit(params, n, show_grid, plat_ok, alloc_ok, sim_ok) ==
    /\ ~app.initialized
    /\ IF params.null
       THEN /\ ret' = [op |-> "app_init", ok |-> FALSE, rebuilt |-> FALSE]
            /\ UNCHANGED <<world, cfg, over, allocs, app>>
       ELSE LET given == AppParams(params, n, 1, show_grid, 1)
                res == app_rebuild_hex_world(world, params, alloc_ok)
                grid == params.hex.enabled /\ show_grid
                overlay == app_refresh_hex_overlay(world', grid, params.hex.enabled, SIZE_MAX)
            IN IF ~AppValid(given) \/ ~plat_ok
               THEN /\ app' = [app EXCEPT !.g_params = given, !.g_params_runtime = given,
                                          !.g_sim_fixed_dt = given.sim_fixed_dt]
                    /\ ret' = [op |-> "app_init", ok |-> FALSE, rebuilt |-> FALSE]
                    /\ UNCHANGED <<world, cfg, over, allocs>>
               ELSE /\ world' = res.world
                    /\ cfg' = IF params.hex.enabled THEN params ELSE NullParams
                    /\ over' = (params.hex.enabled /\ world.tiles # NULL /\ cfg # params)
                    /\ allocs' = allocs - Freed(world) + res.alloc
                    /\ app' = [app EXCEPT
                                 !.initialized = sim_ok,
                                 !.g_params = given,
                                 !.g_params_runtime = given,
                                 !.g_sim = IF sim_ok THEN [bee_count |-> n, motion_min_speed |-> 1]
                                           ELSE NULL,
                                 !.g_hex_show_grid = grid,
                                 !.g_hex_selected_index = overlay.g_hex_selected_index,
                                 !.render_hex = overlay.render_hex,
                                 !.ui_selected = overlay.ui_selected,
                                 !.g_sim_fixed_dt = given.sim_fixed_dt,
                                 !.g_sim_accumulator_sec = IF sim_ok THEN 0 ELSE @,
                                 !.g_sim_paused = IF sim_ok THEN FALSE ELSE @,
                                 !.g_log_accumulator_sec = IF sim_ok THEN 0 ELSE @,
                                 !.g_log_frame_counter = IF sim_ok THEN 0 ELSE @,
                                 !.g_log_tick_counter = IF sim_ok THEN 0 ELSE @]
                    /\ ret' = [op |-> "app_init", ok |-> sim_ok, rebuilt |-> TRUE]
    /\ UNCHANGED built

\* the panel's "+" on the bee count
UiPlus ==
    /\ app.initialized
    /\ app.g_params_runtime.bee_count < MaxBees
    /\ app' = [app EXCEPT !.g_params_runtime.bee_count =
                   IF @ + (IF @ >= 100 THEN 100 ELSE 1) > 1000000 THEN 1000000
                   ELSE @ + (IF @ >= 100 THEN 100 ELSE 1)]
    /\ ret' = [op |-> "ui_edit"]
    /\ UNCHANGED <<world, cfg, over, allocs, built>>

\* the panel's "-" on the bee count
UiMinus ==
    /\ app.initialized
    /\ app' = [app EXCEPT !.g_params_runtime.bee_count =
                   IF @ > 1 THEN (IF @ > 100 THEN @ - 100 ELSE @ - 1) ELSE @]
    /\ ret' = [op |-> "ui_edit"]
    /\ UNCHANGED <<world, cfg, over, allocs, built>>

\* the panel's MIN SPEED slider dragged to new_value; its range starts at 0
UiSlider(new_value) ==
    /\ app.initialized
    /\ app' = [app EXCEPT !.g_params_runtime.motion_min_speed = new_value]
    /\ ret' = [op |-> "ui_edit"]
    /\ UNCHANGED <<world, cfg, over, allocs, built>>

\* app_apply_runtime_params that makes the new parameters active before the
\* simulation is rebuilt
app_apply_runtime_params_early(a, reinit_required, sim_ok) ==
    LET new_params == a.g_params_runtime
    IN IF ~AppValid(new_params)
       THEN [app |-> [a EXCEPT !.g_params_runtime = a.g_params], ok |-> FALSE]
       ELSE IF reinit_required /\ ~sim_ok
       THEN [app |-> [a EXCEPT !.g_params = new_params], ok |-> FALSE]
       ELSE [app |-> [a EXCEPT
                        !.g_params = new_params,
                        !.g_params_runtime = new_params,
                        !.g_sim = IF reinit_required
                                  THEN [bee_count |-> new_params.bee_count,
                                        motion_min_speed |-> new_params.motion_min_speed]
                                  ELSE IF @ # NULL
                                  THEN [@ EXCEPT !.motion_min_speed = new_params.motion_min_speed]
                                  ELSE @,
                        !.g_sim_accumulator_sec = IF reinit_required THEN 0 ELSE @,
                        !.g_sim_fixed_dt = IF new_params.sim_fixed_dt > 0
                                           THEN new_params.sim_fixed_dt ELSE @],
             ok |-> TRUE]

\* app_apply_runtime_params(reinit_required) over the statics a; g_sim is
\* the bee_count the simulation was built with and the motion_min_speed it
\* runs with
app_apply_runtime_params(a, reinit_required, sim_ok) ==
    LET new_params == a.g_params_runtime
    IN IF ~AppValid(new_params)
       THEN [app |-> [a EXCEPT !.g_params_runtime = a.g_params], ok |-> FALSE]
       ELSE IF reinit_required /\ ~sim_ok
       THEN [app |-> [a EXCEPT !.g_params_runtime = a.g_params], ok |-> FALSE]
       ELSE [app |-> [a EXCEPT
                        !.g_params = new_params,
                        !.g_params_runtime = new_params,
                        !.g_sim = IF reinit_required
                                  THEN [bee_count |-> new_params.bee_count,
                                        motion_min_speed |-> new_params.motion_min_speed]
                                  ELSE IF @ # NULL
                                  THEN [@ EXCEPT !.motion_min_speed = new_params.motion_min_speed]
                                  ELSE @,
                        !.g_sim_accumulator_sec = IF reinit_required THEN 0 ELSE @,
                        !.g_sim_fixed_dt = IF new_params.sim_fixed_dt > 0
                                           THEN new_params.sim_fixed_dt ELSE @],
             ok |-> TRUE]

\* the panel's "Apply", enabled when the runtime copy differs from the
\* baseline; a changed bee_count requires the simulation to be rebuilt
AppApply(sim_ok) ==
    LET reinit_required == app.g_params_runtime.bee_count # app.g_params.bee_count
        res == app_apply_runtime_params(app, reinit_required, sim_ok)
    IN /\ app.initialized
       /\ app.g_params_runtime # app.g_params
       /\ app' = res.app
       /\ ret' = [op |-> "apply", ok |-> res.ok, from |-> app.g_params,
                  edited |-> app.g_params_runtime]
       /\ UNCHANGED <<world, cfg, over, allocs, built>>

\* the panel's "Reset": the runtime copy goes back to the baseline and is
\* applied without a rebuild of the simulation
UiReset ==
    LET res == app_apply_runtime_params([app EXCEPT !.g_params_runtime = app.g_params], FALSE, TRUE)
    IN /\ app.initialized
       /\ app' = res.app
       /\ ret' = [op |-> "apply", ok |-> res.ok, from |-> app.g_params,
                  edited |-> app.g_params]
       /\ UNCHANGED <<world, cfg, over, allocs, built>>

\* app_shutdown: the simulation is shut down, the lattice is left as it is
AppShutdown ==
    /\ app.initialized
    /\ app' = [app EXCEPT !.initialized = FALSE, !.g_sim = NULL,
                          !.g_sim_paused = FALSE, !.g_sim_accumulator_sec = 0,
                          !.g_log_accumulator_sec = 0, !.g_log_frame_counter = 0,
                          !.g_log_tick_counter = 0]
    /\ ret' = [op |-> "shutdown"]
    /\ UNCHANGED <<world, cfg, over, allocs, built>>

NextApp ==
    \/ \E params \in AppConfigs, n \in BeeCounts, show_grid \in BOOLEAN, plat_ok \in BOOLEAN, alloc_ok \in BOOLEAN, sim_ok \in BOOLEAN : AppInit(params, n, show_grid, plat_ok, alloc_ok, sim_ok)
    \/ UiPlus
    \/ UiMinus
    \/ \E new_value \in 0..MaxSpeed : UiSlider(new_value)
    \/ \E sim_ok \in BOOLEAN : AppApply(sim_ok)
    \/ UiReset
    \/ AppShutdown

SpecApp == Init /\ [][NextApp]_vars

\* the lattice's cell_size, origin and bounds are those of configuration p
HeaderMatches(w, p) ==
    /\ w.cell_size = p.hex.cell_size
    /\ w.origin_x = p.hex.origin_x
    /\ w.origin_y = p.hex.origin_y
    /\ w.q_min = p.hex.q_min
    /\ w.q_max = p.hex.q_max
    /\ w.r_min = p.hex.r_min
    /\ w.r_max = p.hex.r_max

C28_FailedApply ==
    [][(ret'.op = "apply" /\ ~ret'.ok) =>
          /\ app'.g_params = app.g_params
          /\ app'.g_sim = app.g_sim
          /\ world' = world
          /\ app'.g_params_runtime = app'.g_params]_vars

\* over a populated lattice an apply has failed on an edited bee_count,
\* which has rebuilt no simulation, and the edit is gone
C28_Witness ==
    /\ ret.op = "apply"
    /\ ~ret.ok
    /\ Populated
    /\ ret.edited.bee_count # ret.from.bee_count
    /\ app.g_params = ret.from
    /\ app.g_params_runtime = ret.from
    /\ app.g_sim # NULL
    /\ app.g_sim.bee_count = ret.from.bee_count

(***************************************************************************)
(* The lattice between rebuilds: the queries of hex_world.c and the host's *)
(* overlay refresh, interleaved with hex_world_create, hex_world_destroy   *)
(* and hex_world_init.                                                     *)
(***************************************************************************)

\* the configurations the lattice is built from
FrameConfigs == {Disabled, SceneOrigin(MaxSpan, MaxSpan)}

\* query coordinates: the two ends of the window's diagonal and the cells
\* just outside them
FrameCells ==
    {<<world.q_min - 1, world.r_min>>, <<world.q_min, world.r_min>>,
     <<world.q_max, world.r_max>>, <<world.q_max, world.r_max + 1>>}

\* world points: the lattice origin, the centre of the last cell, and
\* (1000,1000)
FramePoints ==
    {<<Dec(0, 1), Dec(0, 1)>>, <<Dec(1000, 1), Dec(1000, 1)>>}
        \cup (IF world.tiles = NULL THEN {}
              ELSE {<<world.tiles[Len(world.tiles)].center_x,
                      world.tiles[Len(world.tiles)].center_y>>})

\* the values g_hex_selected_index is given when the overlay is refreshed:
\* no selection, the first and the last cell, and one past the last
SelectedIndices == {SIZE_MAX, 0, world.count - 1, world.count}

InBounds(q, r) ==
    /\ ret' = [op |-> "in_bounds", q |-> q, r |-> r,
               res |-> hex_world_in_bounds(world, q, r)]
    /\ UNCHANGED <<world, cfg, over, allocs, built, app>>

AxialToWorld(q, r) ==
    /\ ret' = [op |-> "axial_to_world", q |-> q, r |-> r,
               res |-> hex_axial_to_world(world, q, r)]
    /\ UNCHANGED <<world, cfg, over, allocs, built, app>>

ToAxialF(pt) ==
    /\ ret' = [op |-> "to_axial_f", x |-> pt[1], y |-> pt[2],
               res |-> hex_world_to_axial_f(world, pt[1], pt[2])]
    /\ UNCHANGED <<world, cfg, over, allocs, built, app>>

\* app_refresh_hex_overlay() with g_hex_world = world, g_hex_show_grid =
\* show_grid, g_params.hex.enabled = enabled and g_hex_selected_index =
\* selected; ret keeps what the call was given and what it handed on
RefreshOverlay(show_grid, enabled, selected) ==
    LET overlay == app_refresh_hex_overlay(world, show_grid, enabled, selected)
    IN /\ app' = [app EXCEPT !.g_hex_show_grid = show_grid,
                             !.g_hex_selected_index = overlay.g_hex_selected_index,
                             !.render_hex = overlay.render_hex,
                             !.ui_selected = overlay.ui_selected]
       /\ ret' = [op |-> "overlay", show_grid |-> show_grid, enabled |-> enabled,
                  selected |-> selected, ui_overlay |-> overlay.ui_overlay]
       /\ UNCHANGED <<world, cfg, over, allocs, built>>

NextFrame ==
    \/ \E p \in FrameConfigs, alloc_ok \in BOOLEAN : Create(p, alloc_ok)
    \/ Destroy
    \/ HexInit
    \/ \E c \in FrameCells : InBounds(c[1], c[2])
    \/ \E c \in FrameCells : Index(c[1], c[2])
    \/ \E c \in FrameCells : Tile(c[1], c[2])
    \/ \E c \in FrameCells : TileMut(c[1], c[2])
    \/ \E c \in FrameCells : AxialToWorld(c[1], c[2])
    \/ \E pt \in FramePoints : ToAxialF(pt)
    \/ \E pt \in FramePoints : Pick(pt)
    \/ \E show_grid \in BOOLEAN, enabled \in BOOLEAN, selected \in SelectedIndices : RefreshOverlay(show_grid, enabled, selected)

SpecFrame == Init /\ [][NextFrame]_vars

\* the operations the lattice is read through
ReadOps ==
    {"in_bounds", "index", "tile", "axial_to_world", "to_axial_f", "pick", "overlay"}

C27_Overlay ==
    ret.op = "overlay" =>
        /\ app.render_hex.enabled =>
               /\ ret.enabled
               /\ ret.show_grid
               /\ world.tiles # NULL
               /\ world.count > 0
               /\ app.render_hex.world
        /\ app.render_hex.selected_index = SIZE_MAX
               \/ (app.render_hex.selected_index >= 0
                      /\ app.render_hex.selected_index < world.count)
        /\ app.ui_selected = SIZE_MAX
               \/ (world.tiles # NULL /\ app.ui_selected >= 0
                      /\ app.ui_selected < Len(world.tiles))
        /\ app.g_hex_selected_index = SIZE_MAX
               \/ (app.g_hex_selected_index >= 0
                      /\ app.g_hex_selected_index < world.count)

\* the overlay is refreshed with the grid requested over the lattice a
\* failed build left (count > 0, no cells) and a selection below count
C27_Witness ==
    /\ ret.op = "overlay"
    /\ ret.show_grid
    /\ ret.enabled
    /\ ret.selected = 0
    /\ world.tiles = NULL
    /\ world.count > 0
    /\ ~app.render_hex.enabled

(***************************************************************************)
(* The fixed-step loop of app_frame.  Times are in units of 1/120 s, the   *)
(* default sim_fixed_dt.                                                   *)
(***************************************************************************)

\* g_sim_max_accumulator, 0.25 s
AccCap == 30

\* the period of the log line, 1.0 s
LogPeriod == 120

\* the frame times delivered are multiples of FrameStep, up to MaxFrameDt
\* of them
FrameStep == 10

MaxFrameDt == 2

\* sim_fixed_dt of the configurations handed to app_init: 0, the default,
\* the accumulator's cap, and one unit above the cap
FixedDts == {0, 1, AccCap, AccCap + 1}

\* the loop while (g_sim_accumulator_sec >= g_sim_fixed_dt): the accumulator
\* it leaves and the number of calls of sim_tick
RECURSIVE SimLoop(_, _, _)
SimLoop(accumulator, fixed_dt, ticks) ==
    IF accumulator >= fixed_dt
    THEN SimLoop(accumulator - fixed_dt, fixed_dt, ticks + 1)
    ELSE [accumulator |-> IF accumulator < 0 THEN 0 ELSE accumulator, ticks |-> ticks]

\* the application after a successful app_init on a configuration with hex
\* disabled whose sim_fixed_dt params_validate accepted
InitSim ==
    /\ world = ZeroWorld
    /\ cfg = NullParams
    /\ over = FALSE
    /\ ret = [op |-> "app_init", ok |-> TRUE, rebuilt |-> TRUE]
    /\ allocs = 0
    /\ built = {}
    /\ \E fixed_dt \in FixedDts :
          LET given == AppParams(Disabled, 1, 1, FALSE, fixed_dt)
          IN /\ AppValid(given)
             /\ app = [AppZero EXCEPT !.initialized = TRUE,
                                      !.g_params = given,
                                      !.g_params_runtime = given,
                                      !.g_sim = [bee_count |-> 1, motion_min_speed |-> 1],
                                      !.g_sim_fixed_dt = fixed_dt]

\* app_frame() with timing.dt_sec = dt: the pause toggle, the single step,
\* the accumulator with its cap, the calls of sim_tick and the counters of
\* the log line
Frame(dt, toggle_pause, step_once) ==
    LET paused == IF toggle_pause THEN ~app.g_sim_paused ELSE app.g_sim_paused
        step_requested == step_once /\ paused
        added == IF ~paused
                 THEN (IF app.g_sim_accumulator_sec + dt > AccCap THEN AccCap
                       ELSE app.g_sim_accumulator_sec + dt)
                 ELSE app.g_sim_accumulator_sec
        stepped == IF app.g_sim = NULL THEN [accumulator |-> added, ticks |-> 0]
                   ELSE IF paused
                   THEN [accumulator |-> added, ticks |-> IF step_requested THEN 1 ELSE 0]
                   ELSE SimLoop(added, app.g_sim_fixed_dt, 0)
        logged == app.g_log_accumulator_sec + dt >= LogPeriod
    IN /\ app.initialized
       /\ app' = [app EXCEPT
                    !.g_sim_paused = paused,
                    !.g_sim_accumulator_sec = stepped.accumulator,
                    !.ticks_this_frame = stepped.ticks,
                    !.g_log_accumulator_sec = IF logged THEN 0 ELSE @ + dt,
                    !.g_log_frame_counter = IF logged THEN 0 ELSE @ + 1,
                    !.g_log_tick_counter = IF logged THEN 0 ELSE @ + stepped.ticks]
       /\ ret' = [op |-> "frame", dt |-> dt]
       /\ UNCHANGED <<world, cfg, over, allocs, built>>

NextSim ==
    \E k \in 1..MaxFrameDt, toggle_pause \in BOOLEAN, step_once \in BOOLEAN : Frame(k * FrameStep, toggle_pause, step_once)

\* the host's main loop calls app_frame again and again
SpecSim == InitSim /\ [][NextSim]_vars /\ WF_vars(NextSim)

\* C29: for every sim_fixed_dt accepted by params_validate, while the
\* application stays initialised and unpaused and every frame delivers a
\* positive dt, a frame eventually calls sim_tick.
C29_Progress ==
    [](app.initialized /\ ~app.g_sim_paused) => <>(app.ticks_this_frame > 0)

====
